---- MODULE Spec2Model ----
(***************************************************************************)
(* A model of the go-interstellar client core: request construction        *)
(* (NewHTTPRequest, RequestOptions), the single-resource operations        *)
(* (GetResource, CreateOrReplaceResource, DeleteResource), the paginator   *)
(* (ListResources) and the optimistic-concurrency protocol built on        *)
(* ReplaceDocument.                                                        *)
(***************************************************************************)
EXTENDS Integers, Sequences, FiniteSets, TLC

(***************************************************************************)
(* Bounds of the model.                                                    *)
(***************************************************************************)
\* the largest number of transport calls one ListResources run may make
MaxPages == 3
\* the number of concurrent workers of the optimistic-concurrency scenario
NumWorkers == 3
\* the longest RequestOptionsList applied on its own
MaxListLen == 3
\* the number of times one RequestOptions value is applied to one request
MaxApply == 2
\* the longest request body, in bytes
MaxBodyLen == 2
\* the number of GetBody calls on one built request
MaxGetBody == 2

(***************************************************************************)
(* Header names and other string constants of the package.                 *)
(***************************************************************************)
HeaderUserAgent == "User-Agent"
HeaderContentType == "Content-Type"
HeaderIfMatch == "If-Match"
HeaderIfNoneMatch == "If-None-Match"
HeaderIfModifiedSince == "If-Modified-Since"
HeaderActivityID == "x-ms-activity-id"
HeaderConsistencyLevel == "x-ms-consistency-level"
HeaderMaxItemCount == "x-ms-max-item-count"
HeaderDocDBPartitionKey == "x-ms-documentdb-partitionkey"
HeaderDocDBQueryEnableCrossPartition == "x-ms-documentdb-query-enablecrosspartition"
HeaderMSAPIVersion == "x-ms-version"
HeaderAIM == "A-IM"
HeaderDocDBPartitionKeyRangeID == "x-ms-documentdb-partitionkeyrangeid"
HeaderDocDBIsQuery == "x-ms-documentdb-isquery"
HeaderETag == "ETag"
HeaderContinuation == "x-ms-continuation"
HeaderSessionToken == "x-ms-session-token"
HeaderMSDate == "x-ms-date"
HeaderAuthorization == "Authorization"
HeaderIndexingDirective == "x-ms-indexing-directive"
ContentTypeQueryJSON == "application/query+json"
DefaultUserAgent == "Go-Interstellar/0.1"
APIVersion == "2017-02-22"
MasterTokenAuthType == "master"
TokenVersion == "1.0"

StatusOK == 200
StatusCreated == 201
StatusNoContent == 204
StatusNotModified == 304
StatusNotFound == 404
StatusPreconditionFailed == 412

(***************************************************************************)
(* Errors.  An error value is a record; the sentinel errors of the package *)
(* carry no status, the generic HTTP error of rest.NewErrorHTTPResponse    *)
(* carries the status and the body of the response it was made from.       *)
(***************************************************************************)
NoBody == [valid |-> FALSE, obj |-> <<>>]
Error(name) == [e |-> name, status |-> 0, body |-> NoBody]
Nil == Error("nil")
ErrPreconditionFailed == Error("interstellar: request precondition failed")
ErrResourceNotFound == Error("interstellar: resource not found")
ErrResourceNotModified == Error("interstellar: resource not modified")
ErrKeyNotFound == Error("interstellar: key was not found in the response object")
NewErrorHTTPResponse(r) == [e |-> "rest: http error response", status |-> r.StatusCode, body |-> r.Body]

(***************************************************************************)
(* http.Header: a map from the names that are set to their single value.   *)
(***************************************************************************)
EmptyHeader == <<>>
HeaderGet(hdr, k) == IF k \in DOMAIN hdr THEN hdr[k] ELSE ""
\* Header.Add in the place of Header.Set: a second write to a name leaves several values
HeaderSetAdd(hdr, k, v) ==
    [x \in (DOMAIN hdr) \cup {k} |->
        IF x = k THEN (IF k \in DOMAIN hdr THEN "several values" ELSE v) ELSE hdr[x]]
HeaderSet(hdr, k, v) == [x \in (DOMAIN hdr) \cup {k} |-> IF x = k THEN v ELSE hdr[x]]

(***************************************************************************)
(* strings.ToUpper and strings.ToLower on the method strings of the model. *)
(***************************************************************************)
MethodStrings == {"", "GET", "get", "POST", "post", "PUT", "put", "DELETE"}
ToUpper(s) ==
    CASE s \in {"GET", "get"} -> "GET"
      [] s \in {"POST", "post"} -> "POST"
      [] s \in {"PUT", "put"} -> "PUT"
      [] OTHER -> s
ToLower(s) ==
    CASE s \in {"GET", "get"} -> "get"
      [] s \in {"POST", "post"} -> "post"
      [] s \in {"PUT", "put"} -> "put"
      [] s = "DELETE" -> "delete"
      [] s = "My Doc" -> "my doc"
      [] s = "Ab3" -> "ab3"
      [] OTHER -> s
\* fmt.Sprintf("%d", n) on the item counts of the model
FormatInt(n) == CASE n = 5 -> "5" [] n = 10 -> "10" [] OTHER -> "0"

(***************************************************************************)
(* Request options.  An option value is a record tagged with its Go type.  *)
(***************************************************************************)
NilOptions == [kind |-> "nil"]
CommonRequestOptions ==
    [kind |-> "CommonRequestOptions", ActivityID |-> "", ContentType |-> "",
     IfMatch |-> "", IfNoneMatch |-> "", IfModifiedSince |-> "", SessionToken |-> "",
     ConsistencytLevel |-> "", DocumentDBPartitionKey |-> "",
     DocumentDBPartitionKeyRangeID |-> "", DocumentDBQueryEnableCrossPartition |-> FALSE,
     ChangeFeed |-> FALSE, MaxItemCount |-> 0, Continuation |-> ""]
Query ==
    [kind |-> "Query", MaxItemCount |-> 0, Continuation |-> "", EnableCrossPartition |-> FALSE,
     ConsistencytLevel |-> "", SessionToken |-> "", RequestOptions |-> NilOptions]
ReplaceDocumentRequest ==
    [kind |-> "ReplaceDocumentRequest", ETag |-> "", IndexingDirective |-> "", Options |-> NilOptions]
\* a RequestOptionsFunc: requestIsQuery, the function of addPartitionKey, or a function of
\* the caller that sets the header name to arg
RequestOptionsFunc(name, arg) == [kind |-> "RequestOptionsFunc", fn |-> name, arg |-> arg]
RequestOptionsList(members) == [kind |-> "RequestOptionsList", members |-> members]

\* a header is set to v only when cond holds
SetIf(hdr, cond, k, v) == IF cond THEN HeaderSet(hdr, k, v) ELSE hdr

requestIsQuery(hdr) ==
    HeaderSet(HeaderSet(hdr, HeaderContentType, ContentTypeQueryJSON), HeaderDocDBIsQuery, "true")

\* Content-Type and If-Match written whatever the method
CommonApplyOptionsUngated(o, method, hdr) ==
    SetIf(SetIf(hdr, o.ContentType # "", HeaderContentType, o.ContentType),
          o.IfMatch # "", HeaderIfMatch, o.IfMatch)

\* CommonRequestOptions.ApplyOptions on a request of the given method
CommonApplyOptions(o, method, hdr) ==
    LET h1 == SetIf(hdr, method \in {"PUT", "POST"} /\ o.ContentType # "",
                    HeaderContentType, o.ContentType)
        h2 == SetIf(h1, method \in {"PUT", "DELETE"} /\ o.IfMatch # "", HeaderIfMatch, o.IfMatch)
        h3 == IF method = "GET"
              THEN IF o.IfNoneMatch # ""
                   THEN HeaderSet(h2, HeaderIfNoneMatch, o.IfNoneMatch)
                   ELSE SetIf(h2, o.IfModifiedSince # "", HeaderIfModifiedSince, o.IfModifiedSince)
              ELSE h2
        h4 == SetIf(h3, o.DocumentDBQueryEnableCrossPartition,
                    HeaderDocDBQueryEnableCrossPartition, "true")
        h5 == SetIf(h4, o.ActivityID # "", HeaderActivityID, o.ActivityID)
        h6 == SetIf(h5, o.SessionToken # "", HeaderSessionToken, o.SessionToken)
        h7 == SetIf(h6, o.ConsistencytLevel # "", HeaderConsistencyLevel, o.ConsistencytLevel)
        h8 == SetIf(h7, o.Continuation # "", HeaderContinuation, o.Continuation)
        h9 == SetIf(h8, o.MaxItemCount # 0, HeaderMaxItemCount, FormatInt(o.MaxItemCount))
        h10 == SetIf(h9, o.DocumentDBPartitionKey # "",
                     HeaderDocDBPartitionKey, o.DocumentDBPartitionKey)
        h11 == SetIf(h10, o.DocumentDBPartitionKeyRangeID # "",
                     HeaderDocDBPartitionKeyRangeID, o.DocumentDBPartitionKeyRangeID)
    IN  SetIf(h11, o.ChangeFeed, HeaderAIM, "Incremental feed")

QueryApplyOptions(q, hdr) ==
    LET h1 == SetIf(hdr, q.SessionToken # "", HeaderSessionToken, q.SessionToken)
        h2 == SetIf(h1, q.ConsistencytLevel # "", HeaderConsistencyLevel, q.ConsistencytLevel)
        h3 == SetIf(h2, q.EnableCrossPartition, HeaderDocDBQueryEnableCrossPartition, "true")
        h4 == SetIf(h3, q.Continuation # "", HeaderContinuation, q.Continuation)
    IN  SetIf(h4, q.MaxItemCount # 0, HeaderMaxItemCount, FormatInt(q.MaxItemCount))

\* a ReplaceDocumentRequest.ApplyOptions that leaves If-Match out
ReplaceApplyOwnNoIfMatch(r, hdr) ==
    SetIf(hdr, r.IndexingDirective # "", HeaderIndexingDirective, r.IndexingDirective)

\* the headers ReplaceDocumentRequest.ApplyOptions sets before it applies r.Options
ReplaceApplyOwn(r, hdr) ==
    LET h1 == SetIf(hdr, r.ETag # "", HeaderIfMatch, r.ETag)
    IN  SetIf(h1, r.IndexingDirective # "", HeaderIndexingDirective, r.IndexingDirective)

RECURSIVE ApplyOptions(_, _, _)
RECURSIVE ApplyList(_, _, _, _)
RECURSIVE ApplyListBackwards(_, _, _, _)
\* a loop over the list from its last member to its first
ApplyListBackwards(members, i, method, hdr) ==
    IF i > Len(members) THEN hdr
    ELSE ApplyListBackwards(members, i + 1, method,
            LET m == members[Len(members) + 1 - i]
            IN  IF m.kind # "nil" THEN ApplyOptions(m, method, hdr) ELSE hdr)
\* RequestOptionsList.ApplyOptions from member i on
ApplyList(members, i, method, hdr) ==
    IF i > Len(members) THEN hdr
    ELSE ApplyList(members, i + 1, method,
                   IF members[i].kind # "nil" THEN ApplyOptions(members[i], method, hdr) ELSE hdr)
\* opt.ApplyOptions(req), dispatched on the dynamic type of opt
ApplyOptions(opt, method, hdr) ==
    CASE opt.kind = "CommonRequestOptions" -> CommonApplyOptions(opt, method, hdr)
      [] opt.kind = "Query" -> QueryApplyOptions(opt, hdr)
      [] opt.kind = "ReplaceDocumentRequest" ->
            LET h == ReplaceApplyOwn(opt, hdr)
            IN  IF opt.Options.kind # "nil" THEN ApplyOptions(opt.Options, method, h) ELSE h
      [] opt.kind = "RequestOptionsFunc" ->
            IF opt.fn = "requestIsQuery" THEN requestIsQuery(hdr)
            ELSE IF opt.fn = "partitionKey" THEN HeaderSet(hdr, HeaderDocDBPartitionKey, opt.arg)
            ELSE HeaderSet(hdr, opt.fn, opt.arg)
      [] opt.kind = "RequestOptionsList" -> ApplyList(opt.members, 1, method, hdr)
      [] OTHER -> hdr

(***************************************************************************)
(* The Authorizer of a Client.  A MasterKey signs the request; any other   *)
(* implementation of the Authorizer interface is represented by one that   *)
(* may return an error.                                                    *)
(***************************************************************************)
MasterKey(bytes) == [kind |-> "MasterKey", isNil |-> FALSE, key |-> bytes]
NilMasterKey == [kind |-> "MasterKey", isNil |-> TRUE, key |-> ""]
\* an Authorizer other than a MasterKey; whether a call of it fails is decided per call
CustomAuthorizer == [kind |-> "custom", isNil |-> FALSE, key |-> ""]
ErrAuthorize == Error("authorizer: cannot authorize")
ErrTransport == Error("transport: connection refused")
ErrTimeout == Error("transport: context deadline exceeded")

\* ResourceType.String: the lower-cased resource type
ResourceTypeString(rt) ==
    CASE rt \in {"docs", "Docs", "DOCS"} -> "docs"
      [] rt \in {"colls", "Colls"} -> "colls"
      [] rt \in {"dbs", "Dbs"} -> "dbs"
      [] OTHER -> rt
\* the time.Now() of a request, formatted with http.TimeFormat, and its lower-casing
Dates == {"Thu, 01 Jan 1970 00:00:00 GMT"}
ToLowerDate(d) ==
    CASE d = "Thu, 01 Jan 1970 00:00:00 GMT" -> "thu, 01 jan 1970 00:00:00 gmt"
      [] d = "Fri, 02 Jan 1970 00:00:00 GMT" -> "fri, 02 jan 1970 00:00:00 gmt"
      [] d = "Sat, 03 Jan 1970 00:00:00 GMT" -> "sat, 03 jan 1970 00:00:00 gmt"
      [] OTHER -> d
\* MasterKey.Sign: the base-64 HMAC-SHA256 of message under the key, represented by a
\* string that names both
Sign(k, message) == "hmac-sha256(" \o k.key \o ")(" \o message \o ")"

\* base64.StdEncoding.DecodeString on the encoded keys of the model: [err, bytes]
ErrCorruptInput == Error("illegal base64 data at input byte 0")
DecodeString(s) ==
    CASE s = "" -> [err |-> Nil, bytes |-> ""]
      [] s = "a2V5" -> [err |-> Nil, bytes |-> "key"]
      [] OTHER -> [err |-> ErrCorruptInput, bytes |-> ""]
\* ParseMasterKey: [err, key]; the key of a decoded string is never nil, not even
\* that of the empty string
ParseMasterKey(s) ==
    LET kb == DecodeString(s)
    IN  IF kb.err # Nil THEN [err |-> kb.err, key |-> NilMasterKey]
        ELSE [err |-> Nil, key |-> MasterKey(kb.bytes)]

RECURSIVE Join(_, _)
\* strings.Join(elems, sep)
Join(elems, sep) ==
    IF Len(elems) = 0 THEN ""
    ELSE IF Len(elems) = 1 THEN elems[1]
    ELSE elems[1] \o sep \o Join(Tail(elems), sep)

\* a message without the resource type
StringToSignNoType(method, resourceType, resourceLink, date) ==
    Join(<<ToLower(method), resourceLink, ToLowerDate(date), "", "">>, "\n")

\* the message cs that Authorize signs
StringToSign(method, resourceType, resourceLink, date) ==
    Join(<<ToLower(method), ResourceTypeString(resourceType), resourceLink, ToLowerDate(date),
           "", "">>, "\n")

\* url.QueryEscape(fmt.Sprintf("type=%s&ver=%s&sig=%s", ...)): "=" and "&" are escaped; sig
\* stands for the escaped signature
Token(sig) ==
    "type%3D" \o MasterTokenAuthType \o "%26ver%3D" \o TokenVersion \o "%26sig%3D" \o sig

\* a signer that leaves an x-ms-date the request already carries
AuthorizeKeepDate(k, r, resourceType, resourceLink, date, fails) ==
    IF k.kind = "custom" THEN [err |-> IF fails THEN ErrAuthorize ELSE Nil, req |-> r]
    ELSE IF k.isNil THEN [err |-> Nil, req |-> r]
    ELSE LET token == Token(Sign(k, StringToSign(r.Method, resourceType, resourceLink, date)))
             h1 == HeaderSet(r.Header, HeaderAuthorization, token)
             h2 == SetIf(h1, HeaderGet(h1, HeaderMSAPIVersion) = "", HeaderMSAPIVersion, APIVersion)
             h3 == SetIf(h2, HeaderGet(h2, HeaderMSDate) = "", HeaderMSDate, date)
         IN  [err |-> Nil, req |-> [r EXCEPT !.Header = h3]]

\* a signer that writes x-ms-version whatever the request carries
AuthorizeAlwaysVersion(k, r, resourceType, resourceLink, date, fails) ==
    IF k.kind = "custom" THEN [err |-> IF fails THEN ErrAuthorize ELSE Nil, req |-> r]
    ELSE IF k.isNil THEN [err |-> Nil, req |-> r]
    ELSE LET token == Token(Sign(k, StringToSign(r.Method, resourceType, resourceLink, date)))
             h1 == HeaderSet(r.Header, HeaderAuthorization, token)
             h2 == HeaderSet(h1, HeaderMSAPIVersion, APIVersion)
             h3 == HeaderSet(h2, HeaderMSDate, date)
         IN  [err |-> Nil, req |-> [r EXCEPT !.Header = h3]]

\* c.Authorizer.Authorize on a request [Method, Path, Header]: [err, req].  A custom
\* authorizer fails when fails is TRUE and passes the request through otherwise;
\* a MasterKey signs as MasterKey.Authorize does.
Authorize(k, r, resourceType, resourceLink, date, fails) ==
    IF k.kind = "custom" THEN [err |-> IF fails THEN ErrAuthorize ELSE Nil, req |-> r]
    ELSE IF k.isNil THEN [err |-> Nil, req |-> r]
    ELSE LET cs == StringToSign(r.Method, resourceType, resourceLink, date)
             sig == Sign(k, cs)
             token == Token(sig)
             h1 == HeaderSet(r.Header, HeaderAuthorization, token)
             h2 == SetIf(h1, HeaderGet(h1, HeaderMSAPIVersion) = "", HeaderMSAPIVersion, APIVersion)
             h3 == HeaderSet(h2, HeaderMSDate, date)
         IN  [err |-> Nil, req |-> [r EXCEPT !.Header = h3]]

(***************************************************************************)
(* Client.NewHTTPRequest: the transport request built from a ClientRequest *)
(* [Method, Path, ResourceType, ResourceLink, Options] by the client c     *)
(* [UserAgent, Authorizer] under the context ctx at the time date.         *)
(* Result: [err, req].                                                     *)
(***************************************************************************)
\* the context of a request made by http.NewRequest, and after hreq.WithContext(ctx)
Background == "background"
WithContext(ctx) == IF ctx # "nil" THEN ctx ELSE Background
\* a NewHTTPRequest that leaves the context of the caller out
NewHTTPRequestNoContext(c, ctx, request, date, fails) ==
    LET method == IF request.Method = "" THEN "GET" ELSE request.Method
        h0 == HeaderSet(EmptyHeader, HeaderUserAgent,
                        IF c.UserAgent # "" THEN c.UserAgent ELSE DefaultUserAgent)
        h1 == IF request.Options.kind # "nil" THEN ApplyOptions(request.Options, method, h0) ELSE h0
        hreq == [Method |-> method, Path |-> request.Path, Header |-> h1,
                 Context |-> Background]
    IN  Authorize(c.Authorizer, hreq, request.ResourceType, request.ResourceLink, date, fails)
NewHTTPRequest(c, ctx, request, date, fails) ==
    LET method == IF request.Method = "" THEN "GET" ELSE request.Method
        h0 == HeaderSet(EmptyHeader, HeaderUserAgent,
                        IF c.UserAgent # "" THEN c.UserAgent ELSE DefaultUserAgent)
        h1 == IF request.Options.kind # "nil" THEN ApplyOptions(request.Options, method, h0) ELSE h0
        hreq == [Method |-> method, Path |-> request.Path, Header |-> h1,
                 Context |-> WithContext(ctx)]
    IN  Authorize(c.Authorizer, hreq, request.ResourceType, request.ResourceLink, date, fails)

(***************************************************************************)
(* Responses.  A response is [StatusCode, Header, Body]; a body is either  *)
(* not a JSON object (valid = FALSE) or the object obj, a map from keys to *)
(* raw JSON values [t, items].                                             *)
(***************************************************************************)
RawArray(items) == [t |-> "array", items |-> items]
RawNull == [t |-> "null", items |-> <<>>]
RawString == [t |-> "string", items |-> <<>>]
JSONObject(obj) == [valid |-> TRUE, obj |-> obj]
ErrDecodeMap == Error("interstellar: could not decode json into map")
ErrDecodeSlice == Error("interstellar: could not decode json into slice")

\* GetResponseMetadata: the header values the model uses
GetResponseMetadata(r) ==
    [ETag |-> HeaderGet(r.Header, HeaderETag),
     Continuation |-> HeaderGet(r.Header, HeaderContinuation),
     SessionToken |-> HeaderGet(r.Header, HeaderSessionToken)]
NoMeta == [ETag |-> "", Continuation |-> "", SessionToken |-> ""]

\* ParseArrayResponse on one raw JSON value: [err, list]
ParseArrayResponse(raw) ==
    CASE raw.t = "array" -> [err |-> Nil, list |-> raw.items]
      [] raw.t = "null" -> [err |-> Nil, list |-> <<>>]
      [] OTHER -> [err |-> ErrDecodeSlice, list |-> <<>>]

\* a ParseArrayFromResponse that hands out an empty page when the key is missing
ParseArrayFromResponseEmptyPage(body, k) ==
    IF ~body.valid THEN [err |-> ErrDecodeMap, list |-> <<>>]
    ELSE IF k \notin DOMAIN body.obj THEN [err |-> Nil, list |-> <<>>]
    ELSE ParseArrayResponse(body.obj[k])

\* a ParseArrayFromResponse that hands out an empty page for a body it cannot decode
ParseArrayFromResponseLenient(body, k) ==
    IF ~body.valid THEN [err |-> Nil, list |-> <<>>]
    ELSE IF k \notin DOMAIN body.obj THEN [err |-> ErrKeyNotFound, list |-> <<>>]
    ELSE ParseArrayResponse(body.obj[k])

\* ParseArrayFromResponse: [err, list]
ParseArrayFromResponse(body, k) ==
    IF ~body.valid THEN [err |-> ErrDecodeMap, list |-> <<>>]
    ELSE IF k \notin DOMAIN body.obj THEN [err |-> ErrKeyNotFound, list |-> <<>>]
    ELSE ParseArrayResponse(body.obj[k])

(***************************************************************************)
(* The state of one call of a Client operation.                            *)
(***************************************************************************)
VARIABLES
    pc,          \* "idle", "Requesting", "Delivering" or "done"
    op,          \* the operation called, "none" before the call
    client,      \* the Client [UserAgent, Authorizer]
    inMethod,    \* the Method of the ClientRequest as the caller passed it
    request,     \* the ClientRequest as the operation holds it
    key,         \* the key argument of ListResources
    req,         \* the transport request built last
    resp,        \* the response received last
    meta,        \* the ResponseMetadata of resp
    results,     \* the page parsed from resp
    nCalls,      \* the number of Requester.Do calls so far
    nConsumer,   \* the number of invocations of the page consumer so far
    ret,         \* what the operation returned: [err, ok, body, hasMeta]
    clean,       \* every response so far was a 200 with the key and every consumer return (true, nil)
    firstNoCont, \* the number of the first 200 response without a continuation token, 0 if none
    stopPage,    \* the page on which the consumer first returned other than (true, nil), 0 if none
    stopFn,      \* that return of the consumer: [ok, err]
    stopCont,    \* the continuation token of the response of that page
    doErr,       \* the error Requester.Do returned, Nil while it has returned none
    ctx,         \* the context argument of the call, "nil" for a nil context
    firstReq,    \* the first transport request ListResources built
    doc,         \* the document on the server: [value, version], its ETag is ETagOf(version)
    worker,      \* the state of each worker of the optimistic-concurrency scenario
    optInput,    \* an application of options: [opt, method]
    optHdrs,     \* the header of the request before it and after each ApplyOptions call
    signIn,      \* the arguments of the calls of the signer: [k, r, resourceType, resourceLink, date, options]
    signOut,     \* what the calls made so far returned: [fn, res]
    bodyIn,      \* the body of a ClientRequest as the caller supplied it: [kind, data, err]
    readers,     \* the readers that exist: [buf, off, err], a reader is named by its index
    hbody,       \* the body of the built request: [state, Body, GetBody]
    replays,     \* the GetBody calls so far: [reader, yields]
    callIn,      \* the receiver and arguments of a call of a resource client or of a method of a value
    callOut,     \* what the call did: [fn, err, called, request, text]
    runs         \* the concurrent runs of ListResources with a body, one record for each

clientVars == <<pc, op, client, inMethod, request, key, req, resp, meta, results, nCalls,
                nConsumer, ret, clean, firstNoCont, stopPage, stopFn, stopCont, doErr,
                ctx, firstReq>>

occVars == <<doc, worker>>

optVars == <<optInput, optHdrs>>

\* the variables of the calls of single functions
signVars == <<signIn, signOut>>

bodyVars == <<bodyIn, readers, hbody, replays>>

callVars == <<callIn, callOut>>

runVars == <<runs>>

pureVars == <<optVars, signVars, bodyVars, callVars, runVars>>

NoRequest == [Method |-> "", Path |-> "", ResourceType |-> "", ResourceLink |-> "", Options |-> NilOptions]
NoReq == [Method |-> "", Path |-> "", Header |-> EmptyHeader, Context |-> ""]
NoResp == [StatusCode |-> 0, Header |-> EmptyHeader, Body |-> NoBody]
NoRet == [err |-> Nil, ok |-> FALSE, body |-> NoBody, hasMeta |-> FALSE]
NoFn == [ok |-> TRUE, err |-> Nil]
ErrConsumer == Error("consumer: cannot decode the page")
ErrInvalidMethodList == Error("interstellar: Invalid request method; must be either GET or POST")
ErrInvalidMethodCreate == Error("interstellar: Invalid request method; must be either PUT or POST")

(***************************************************************************)
(* The inputs of the model.                                                *)
(***************************************************************************)
\* a nil context and a context of the caller
Contexts == {"nil", "ctx1"}
Clients ==
    {[UserAgent |-> "", Authorizer |-> MasterKey("key")],
     [UserAgent |-> "agent/1.0", Authorizer |-> NilMasterKey],
     [UserAgent |-> "", Authorizer |-> CustomAuthorizer]}
AuthOutcomes(c) == IF c.Authorizer.kind = "custom" THEN BOOLEAN ELSE {FALSE}
Keys == {"Documents", "Offers"}
ListOptions ==
    {NilOptions,
     [CommonRequestOptions EXCEPT !.Continuation = "c0", !.SessionToken = "s0",
                                  !.ContentType = "text/plain"],
     [Query EXCEPT !.Continuation = "c0", !.SessionToken = "s0", !.MaxItemCount = 5]}
ClientRequests(methods, options) ==
    [Method : methods, Path : {"/dbs/db1/colls/col1/docs"}, ResourceType : {"docs"},
     ResourceLink : {"dbs/db1/colls/col1"}, Options : options]

ResponseHeader(cont, session, etag) ==
    SetIf(SetIf(SetIf(EmptyHeader, cont # "", HeaderContinuation, cont),
                session # "", HeaderSessionToken, session),
          etag # "", HeaderETag, etag)
\* the (continuation, session token) pairs of the responses of the model
Cursors == {<<"", "">>, <<"", "s1">>, <<"c1", "">>, <<"c1", "s1">>, <<"c2", "s2">>}
ListBodies ==
    {[valid |-> FALSE, obj |-> <<>>],
     JSONObject(<<>>),
     JSONObject([k \in {"Documents"} |-> RawArray(<<"d1">>)]),
     JSONObject([k \in {"Offers"} |-> RawArray(<<>>)]),
     JSONObject([k \in {"Documents", "Offers"} |-> IF k = "Offers" THEN RawString ELSE RawNull])}
\* the statuses other than 200 a response of the model may have; 500 stands for the
\* statuses no operation has a case for
ErrorStatuses == {StatusCreated, StatusNoContent, StatusNotModified, StatusNotFound,
                  StatusPreconditionFailed, 500}
ListResponses ==
    {[StatusCode |-> StatusOK, Header |-> ResponseHeader(c[1], c[2], ""), Body |-> b] :
        c \in Cursors, b \in ListBodies}
    \cup
    {[StatusCode |-> st, Header |-> ResponseHeader("c1", "s1", ""), Body |-> NoBody] :
        st \in ErrorStatuses}
\* what Requester.Do returns: [err, resp]
TransportOutcomes(responses) ==
    {[err |-> e, resp |-> NoResp] : e \in {ErrTransport, ErrTimeout}}
    \cup {[err |-> Nil, resp |-> r] : r \in responses}

Workers == 1 .. NumWorkers
\* the CreationDate of the document when the workers start
InitialValue == 0
\* the opaque ETag of the version n of the document
ETagOf(n) == <<"etag-0", "etag-1", "etag-2", "etag-3", "etag-4", "etag-5", "etag-6">>[n + 1]
InitWorkers ==
    /\ doc = [value |-> InitialValue, version |-> 0]
    /\ worker = [i \in Workers |->
                  [pc |-> "get", value |-> 0, etag |-> "", attempts |-> 0, succeeded |-> 0,
                   err |-> Nil]]

InitCall ==
    /\ pc = "idle" /\ op = "none"
    /\ inMethod = "" /\ request = NoRequest /\ key = ""
    /\ req = NoReq /\ resp = NoResp /\ meta = NoMeta /\ results = <<>>
    /\ nCalls = 0 /\ nConsumer = 0 /\ ret = NoRet
    /\ clean = TRUE /\ firstNoCont = 0 /\ stopPage = 0 /\ stopFn = NoFn /\ stopCont = ""
    /\ doErr = Nil /\ ctx = "nil" /\ firstReq = NoReq

NoOptInput == [opt |-> NilOptions, method |-> ""]
InitOptionsIdle == optInput = NoOptInput /\ optHdrs = <<>>
InitSignIdle == signIn = <<>> /\ signOut = <<>>
NilReader == 0
NoGetBody == [set |-> FALSE, data |-> <<>>]
NoBodyIn == [kind |-> "none", data |-> <<>>, err |-> FALSE]
NoHBody == [state |-> "idle", Body |-> NilReader, GetBody |-> NoGetBody]
InitBodyIdle == bodyIn = NoBodyIn /\ readers = <<>> /\ hbody = NoHBody /\ replays = <<>>
NoCall == [fn |-> "none"]
InitCallsIdle == callIn = NoCall /\ callOut = NoCall
InitRunsIdle == runs = <<>>
InitPureIdle ==
    InitOptionsIdle /\ InitSignIdle /\ InitBodyIdle /\ InitCallsIdle /\ InitRunsIdle

Init == client \in Clients /\ InitCall /\ InitWorkers /\ InitPureIdle

\* the operation returns r
Return(r) == pc' = "done" /\ ret' = r

\* an error of Requester.Do returned under a message of the package
DoErrorWrapped(err) == Error("interstellar: request failed")
\* if err != nil { return err } after c.Requester.Do(req): the error returned
DoError(err) == err

(***************************************************************************)
(* ListResources.                                                          *)
(***************************************************************************)
\* the method switch of ListResources on the upper-cased method m:
\* "" and POST take a case of their own, every other method the default case
ListMethodAccepted(m) == m \in {"", "POST"}

\* a POST case that applies the query markers before the caller's options
ListOptionsForMarkersFirst(m, options) ==
    IF m = "POST"
    THEN RequestOptionsList(<<RequestOptionsFunc("requestIsQuery", ""),
                              IF options.kind = "nil"
                              THEN RequestOptionsFunc("requestIsQuery", "") ELSE options>>)
    ELSE options

\* the options of the request after the method switch
ListOptionsFor(m, options) ==
    IF m = "POST"
    THEN RequestOptionsList(<<IF options.kind = "nil"
                              THEN RequestOptionsFunc("requestIsQuery", "") ELSE options,
                              RequestOptionsFunc("requestIsQuery", "")>>)
    ELSE options

\* a status check that takes a 304 for any other failure
ListStatusErrorNo304(r) ==
    IF r.StatusCode # StatusOK THEN NewErrorHTTPResponse(r) ELSE Nil

\* the status check of the loop: the error to return, Nil on a 200
ListStatusError(r) ==
    IF r.StatusCode # StatusOK
    THEN IF r.StatusCode = StatusNotModified THEN ErrResourceNotModified
         ELSE NewErrorHTTPResponse(r)
    ELSE Nil

\* a loop that asks for a next page whatever the response carried
HasContinuationAlways(r) == TRUE

\* the loop goes on when the response carries a continuation token
HasContinuation(r) == HeaderGet(r.Header, HeaderContinuation) # ""

\* a consumer handling that tests ok before err
AfterConsumerOkFirst(ok, err) ==
    IF ~ok THEN "stop" ELSE IF err # Nil THEN "fail" ELSE "more"

\* a consumer handling that does not look at ok
AfterConsumerIgnoreOk(ok, err) ==
    IF err # Nil THEN "fail" ELSE "more"

\* what the loop does with the return (ok, err) of the consumer
AfterConsumer(ok, err) ==
    IF err # Nil THEN "fail" ELSE IF ~ok THEN "stop" ELSE "more"

\* a rebuilt request that keeps the tokens its options set
EchoCursorKeepOptions(hdr, m) ==
    LET h1 == SetIf(hdr, HeaderGet(hdr, HeaderSessionToken) = "", HeaderSessionToken, m.SessionToken)
    IN  SetIf(h1, HeaderGet(h1, HeaderContinuation) = "", HeaderContinuation, m.Continuation)

\* the two headers set on the rebuilt request from the metadata of the last response
EchoCursor(hdr, m) ==
    HeaderSet(HeaderSet(hdr, HeaderSessionToken, m.SessionToken),
              HeaderContinuation, m.Continuation)

\* the call of ListResources up to the first request built
ListResources ==
    /\ pc = "idle"
    /\ \E r \in ClientRequests(MethodStrings, ListOptions), k \in Keys, d \in Dates,
          f \in AuthOutcomes(client), cx \in Contexts :
        LET m == ToUpper(r.Method)
            request2 == [r EXCEPT !.Method = IF m = "" THEN "GET" ELSE m,
                                  !.Options = ListOptionsFor(m, r.Options)]
            built == NewHTTPRequest(client, cx, request2, d, f)
        IN  /\ op' = "ListResources" /\ inMethod' = r.Method /\ key' = k /\ ctx' = cx
            /\ firstReq' = IF ListMethodAccepted(m) /\ built.err = Nil THEN built.req
                           ELSE firstReq
            /\ IF ~ListMethodAccepted(m)
               THEN /\ Return([NoRet EXCEPT !.err = ErrInvalidMethodList])
                    /\ request' = [r EXCEPT !.Method = m]
                    /\ req' = req /\ clean' = FALSE
               ELSE IF built.err # Nil
               THEN /\ Return([NoRet EXCEPT !.err = built.err])
                    /\ request' = request2 /\ req' = req /\ clean' = FALSE
               ELSE /\ pc' = "Requesting" /\ ret' = ret
                    /\ request' = request2 /\ req' = built.req /\ clean' = clean
    /\ UNCHANGED <<client, resp, meta, results, nCalls, nConsumer, firstNoCont,
                   stopPage, stopFn, stopCont, doErr, occVars, pureVars>>

\* c.Requester.Do(req) in the loop, and the handling of what it returns up to the parsed page
RequesterDo ==
    /\ pc = "Requesting"
    /\ nCalls < MaxPages
    /\ \E o \in TransportOutcomes(ListResponses) :
        LET parsed == ParseArrayFromResponse(o.resp.Body, key)
        IN  /\ nCalls' = nCalls + 1 /\ doErr' = o.err
            /\ IF o.err # Nil
               THEN /\ Return([NoRet EXCEPT !.err = DoError(o.err)])
                    /\ UNCHANGED <<resp, meta, results, firstNoCont>>
                    /\ clean' = FALSE
               ELSE /\ resp' = o.resp
                    /\ firstNoCont' = IF firstNoCont = 0 /\ o.resp.StatusCode = StatusOK
                                         /\ HeaderGet(o.resp.Header, HeaderContinuation) = ""
                                      THEN nCalls + 1 ELSE firstNoCont
                    /\ IF ListStatusError(o.resp) # Nil
                       THEN /\ Return([NoRet EXCEPT !.err = ListStatusError(o.resp)])
                            /\ UNCHANGED <<meta, results>>
                            /\ clean' = FALSE
                       ELSE /\ meta' = GetResponseMetadata(o.resp)
                            /\ IF parsed.err # Nil
                               THEN /\ Return([NoRet EXCEPT !.err = parsed.err])
                                    /\ results' = results /\ clean' = FALSE
                               ELSE /\ pc' = "Delivering" /\ ret' = ret
                                    /\ results' = parsed.list /\ clean' = clean
    /\ UNCHANGED <<op, client, inMethod, request, key, req, nConsumer, stopPage, stopFn, stopCont,
                   ctx, firstReq, occVars, pureVars>>

\* fn(results, meta), and the handling of what it returns up to the next request built
Paginate ==
    /\ pc = "Delivering"
    /\ \E ok \in BOOLEAN, err \in {Nil, ErrConsumer}, d \in Dates, f \in AuthOutcomes(client) :
        LET next == AfterConsumer(ok, err)
            built == NewHTTPRequest(client, ctx, request, d, f)
            stops == stopPage = 0 /\ (~ok \/ err # Nil)
        IN  /\ nConsumer' = nConsumer + 1
            /\ stopPage' = IF stops THEN nCalls ELSE stopPage
            /\ stopFn' = IF stops THEN [ok |-> ok, err |-> err] ELSE stopFn
            /\ stopCont' = IF stops THEN HeaderGet(resp.Header, HeaderContinuation) ELSE stopCont
            /\ IF next = "fail"
               THEN Return([NoRet EXCEPT !.err = err]) /\ req' = req /\ clean' = FALSE
               ELSE IF next = "stop"
               THEN Return(NoRet) /\ req' = req /\ clean' = FALSE
               ELSE IF HasContinuation(resp)
               THEN IF built.err # Nil
                    THEN Return([NoRet EXCEPT !.err = built.err]) /\ req' = req /\ clean' = FALSE
                    ELSE /\ pc' = "Requesting" /\ ret' = ret
                         /\ req' = [built.req EXCEPT !.Header = EchoCursor(built.req.Header, meta)]
                         /\ clean' = (clean /\ ok /\ err = Nil)
               ELSE Return(NoRet) /\ req' = req /\ clean' = (clean /\ ok /\ err = Nil)
    /\ UNCHANGED <<op, client, inMethod, request, key, resp, meta, results, nCalls, firstNoCont,
                   doErr, ctx, firstReq, occVars, pureVars>>

(***************************************************************************)
(* The single-resource operations.  Each is one call: the request is built,*)
(* sent once, and the status of the response decides what is returned.     *)
(***************************************************************************)
SingleOptions ==
    {NilOptions,
     [CommonRequestOptions EXCEPT !.IfMatch = "e1", !.IfNoneMatch = "e1"]}
Document == JSONObject([k \in {"id"} |-> RawString])
SingleResponses ==
    {[StatusCode |-> st, Header |-> ResponseHeader("", s, e), Body |-> b] :
        st \in {StatusOK} \cup ErrorStatuses, s \in {"", "s1"}, e \in {"", "e1"},
        b \in {NoBody, Document}}

\* the status switch of GetResource: [err, ok, body, hasMeta]
GetResourceStatus(r) ==
    CASE r.StatusCode = StatusOK ->
            [err |-> Nil, ok |-> FALSE, body |-> r.Body, hasMeta |-> TRUE]
      [] r.StatusCode = StatusPreconditionFailed ->
            [err |-> ErrPreconditionFailed, ok |-> FALSE, body |-> NoBody, hasMeta |-> TRUE]
      [] r.StatusCode = StatusNotFound ->
            [err |-> ErrResourceNotFound, ok |-> FALSE, body |-> NoBody, hasMeta |-> TRUE]
      [] OTHER ->
            [err |-> NewErrorHTTPResponse(r), ok |-> FALSE, body |-> NoBody, hasMeta |-> TRUE]

\* the status switch of CreateOrReplaceResource
CreateOrReplaceResourceStatus(r) ==
    CASE r.StatusCode \in {StatusOK, StatusCreated} ->
            [err |-> Nil, ok |-> FALSE, body |-> r.Body, hasMeta |-> TRUE]
      [] r.StatusCode = StatusPreconditionFailed ->
            [err |-> ErrPreconditionFailed, ok |-> FALSE, body |-> NoBody, hasMeta |-> TRUE]
      [] OTHER ->
            [err |-> NewErrorHTTPResponse(r), ok |-> FALSE, body |-> NoBody, hasMeta |-> TRUE]

\* a status switch of DeleteResource that takes every 2xx status of the model for a success
DeleteResourceStatusAny2xx(r) ==
    CASE r.StatusCode \in {StatusOK, StatusCreated, StatusNoContent} ->
            [err |-> Nil, ok |-> TRUE, body |-> NoBody, hasMeta |-> TRUE]
      [] r.StatusCode = StatusPreconditionFailed ->
            [err |-> ErrPreconditionFailed, ok |-> FALSE, body |-> NoBody, hasMeta |-> TRUE]
      [] r.StatusCode = StatusNotFound ->
            [err |-> ErrResourceNotFound, ok |-> FALSE, body |-> NoBody, hasMeta |-> TRUE]
      [] OTHER ->
            [err |-> NewErrorHTTPResponse(r), ok |-> FALSE, body |-> NoBody, hasMeta |-> TRUE]

\* the status switch of DeleteResource
DeleteResourceStatus(r) ==
    CASE r.StatusCode = StatusNoContent ->
            [err |-> Nil, ok |-> TRUE, body |-> NoBody, hasMeta |-> TRUE]
      [] r.StatusCode = StatusPreconditionFailed ->
            [err |-> ErrPreconditionFailed, ok |-> FALSE, body |-> NoBody, hasMeta |-> TRUE]
      [] r.StatusCode = StatusNotFound ->
            [err |-> ErrResourceNotFound, ok |-> FALSE, body |-> NoBody, hasMeta |-> TRUE]
      [] OTHER ->
            [err |-> NewErrorHTTPResponse(r), ok |-> FALSE, body |-> NoBody, hasMeta |-> TRUE]

\* a method switch without a default case
CreateMethodAcceptedAny(m) == TRUE

\* the method switch of CreateOrReplaceResource on the upper-cased method m
CreateMethodAccepted(m) == m \in {"", "POST", "PUT"}

\* the part the three operations share: build the request from request2, send it,
\* and return what the status switch yields (status is "get", "create" or "delete")
SendOnce(name, r, request2, accepted, status) ==
    \E d \in Dates, f \in AuthOutcomes(client), o \in TransportOutcomes(SingleResponses) :
        LET built == NewHTTPRequest(client, "ctx1", request2, d, f)
            switch == CASE status = "get" -> GetResourceStatus(o.resp)
                        [] status = "create" -> CreateOrReplaceResourceStatus(o.resp)
                        [] OTHER -> DeleteResourceStatus(o.resp)
        IN  /\ pc = "idle"
            /\ op' = name /\ inMethod' = r.Method /\ request' = request2 /\ ctx' = "ctx1"
            /\ IF ~accepted
               THEN /\ Return([NoRet EXCEPT !.err = ErrInvalidMethodCreate])
                    /\ UNCHANGED <<req, resp, meta, nCalls, doErr>>
               ELSE IF built.err # Nil
               THEN /\ Return([NoRet EXCEPT !.err = built.err])
                    /\ UNCHANGED <<req, resp, meta, nCalls, doErr>>
               ELSE /\ req' = built.req /\ nCalls' = nCalls + 1 /\ doErr' = o.err
                    /\ IF o.err # Nil
                       THEN Return([NoRet EXCEPT !.err = DoError(o.err)])
                            /\ UNCHANGED <<resp, meta>>
                       ELSE /\ resp' = o.resp /\ meta' = GetResponseMetadata(o.resp)
                            /\ Return(switch)
            /\ clean' = FALSE
            /\ UNCHANGED <<client, key, results, nConsumer, firstNoCont, stopPage, stopFn, stopCont,
                           firstReq, occVars, pureVars>>

GetResource ==
    \E r \in ClientRequests({"", "POST"}, SingleOptions) :
        SendOnce("GetResource", r, [r EXCEPT !.Method = "GET"], TRUE, "get")

CreateOrReplaceResource ==
    \E r \in ClientRequests(MethodStrings, SingleOptions) :
        LET m == ToUpper(r.Method)
        IN  SendOnce("CreateOrReplaceResource", r,
                     [r EXCEPT !.Method = IF m = "" THEN "POST" ELSE m],
                     CreateMethodAccepted(m), "create")

DeleteResource ==
    \E r \in ClientRequests({"", "POST"}, SingleOptions) :
        SendOnce("DeleteResource", r, [r EXCEPT !.Method = "DELETE"], TRUE, "delete")

vars == <<clientVars, occVars, pureVars>>

Next ==
    \/ ListResources
    \/ RequesterDo
    \/ Paginate
    \/ GetResource
    \/ CreateOrReplaceResource
    \/ DeleteResource

Spec == Init /\ [][Next]_vars

(***************************************************************************)
(* Optimistic concurrency: NumWorkers workers increment one document, each *)
(* by DocumentClient.Get followed by DocumentClient.ReplaceDocument with   *)
(* the ETag it fetched, until its ReplaceDocument succeeds.                *)
(***************************************************************************)
RawNumber(n) == [t |-> "number", items |-> <<n>>]
DocumentBody(v) == JSONObject([k \in {"creationDate"} |-> RawNumber(v)])
DocumentLink == "dbs/db2/colls/families/docs/GriffinFamily"
PartitionKey == "[\"GriffinFamily\"]"

\* DocumentClient.addPartitionKey with a non-empty partition key
addPartitionKey(opts) ==
    IF opts.kind = "nil" THEN RequestOptionsFunc("partitionKey", PartitionKey)
    ELSE RequestOptionsList(<<opts, RequestOptionsFunc("partitionKey", PartitionKey)>>)

\* the server's answer to a GET of the document
ServerGet(d) ==
    [StatusCode |-> StatusOK, Header |-> ResponseHeader("", "", ETagOf(d.version)),
     Body |-> DocumentBody(d.value)]

\* the server's answer to a PUT of the document: 412 when the request carries an
\* If-Match that is not the current ETag
ServerPutAccepts(d, hreq) ==
    HeaderIfMatch \notin DOMAIN hreq.Header \/ hreq.Header[HeaderIfMatch] = ETagOf(d.version)
ServerPut(d, hreq, v) ==
    IF ServerPutAccepts(d, hreq)
    THEN [StatusCode |-> StatusOK, Header |-> ResponseHeader("", "", ETagOf(d.version + 1)),
          Body |-> DocumentBody(v)]
    ELSE [StatusCode |-> StatusPreconditionFailed, Header |-> EmptyHeader, Body |-> NoBody]

\* dc.Get(ctx, nil, &andersen); etag = meta.ETag; andersen.CreationDate += 100
WorkerGet(i) ==
    /\ worker[i].pc = "get"
    /\ \E d \in Dates :
        LET built == NewHTTPRequest(client, "ctx1",
                        [Method |-> "GET", Path |-> DocumentLink, ResourceType |-> "docs",
                         ResourceLink |-> DocumentLink, Options |-> addPartitionKey(NilOptions)],
                        d, FALSE)
            r == ServerGet(doc)
            got == GetResourceStatus(r)
        IN  worker' = [worker EXCEPT ![i] =
                IF built.err # Nil \/ got.err # Nil
                THEN [@ EXCEPT !.pc = "failed", !.err = IF built.err # Nil THEN built.err ELSE got.err]
                ELSE [@ EXCEPT !.pc = "replace",
                               !.etag = GetResponseMetadata(r).ETag,
                               !.value = got.body.obj["creationDate"].items[1] + 100,
                               !.attempts = @ + 1]]
    /\ UNCHANGED <<doc, clientVars, pureVars>>

\* dc.ReplaceDocument(ctx, ReplaceDocumentRequest{ETag: etag, Document: andersen}) and the
\* worker's handling of its error
WorkerReplace(i) ==
    /\ worker[i].pc = "replace"
    /\ \E d \in Dates :
        LET built == NewHTTPRequest(client, "ctx1",
                        [Method |-> "PUT", Path |-> DocumentLink, ResourceType |-> "docs",
                         ResourceLink |-> DocumentLink,
                         Options |-> addPartitionKey(
                                        [ReplaceDocumentRequest EXCEPT !.ETag = worker[i].etag])],
                        d, FALSE)
            r == ServerPut(doc, built.req, worker[i].value)
            got == CreateOrReplaceResourceStatus(r)
        IN  IF built.err # Nil
            THEN /\ worker' = [worker EXCEPT ![i] = [@ EXCEPT !.pc = "failed", !.err = built.err]]
                 /\ doc' = doc
            ELSE /\ doc' = IF r.StatusCode = StatusOK
                           THEN [value |-> worker[i].value, version |-> doc.version + 1] ELSE doc
                 /\ worker' = [worker EXCEPT ![i] =
                        CASE got.err = Nil -> [@ EXCEPT !.pc = "done", !.succeeded = @ + 1]
                          [] got.err = ErrPreconditionFailed -> [@ EXCEPT !.pc = "get"]
                          [] OTHER -> [@ EXCEPT !.pc = "failed", !.err = got.err]]
    /\ UNCHANGED <<clientVars, pureVars>>

OCCClient == [UserAgent |-> "", Authorizer |-> MasterKey("key")]
InitOCC == client = OCCClient /\ InitCall /\ InitWorkers /\ InitPureIdle
NextOCC == \E i \in Workers : WorkerGet(i) \/ WorkerReplace(i)
\* every worker is a goroutine that keeps being scheduled while it can take a step
FairOCC == \A i \in Workers : WF_vars(WorkerGet(i) \/ WorkerReplace(i))
SpecOCC == InitOCC /\ [][NextOCC]_vars /\ FairOCC

(***************************************************************************)
(* The application of request options: one RequestOptions value is applied *)
(* to a request of some method, once and again, as a caller of             *)
(* opt.ApplyOptions(req) does.                                             *)
(***************************************************************************)
OptionMethods == {"GET", "POST", "PUT", "DELETE", "PATCH"}
\* a request without headers, and one that already carries the gated headers
PriorHeaders ==
    {EmptyHeader,
     [k \in {HeaderContentType, HeaderIfMatch, HeaderIfNoneMatch, HeaderIfModifiedSince,
              HeaderSessionToken} |-> "old"]}
CommonOptionValues ==
    {[CommonRequestOptions EXCEPT !.ContentType = ct, !.IfMatch = im, !.IfNoneMatch = inm,
                                  !.IfModifiedSince = ims] :
        ct \in {"", "text/plain"}, im \in {"", "e1"}, inm \in {"", "e2"},
        ims \in {"", "Thu, 01 Jan 1970 00:00:00 GMT"}}
QueryOptionValues ==
    {[Query EXCEPT !.SessionToken = s, !.MaxItemCount = n, !.EnableCrossPartition = x] :
        s \in {"", "s1"}, n \in {0, 5}, x \in BOOLEAN}
\* the members of the lists of the model
OptionMembers ==
    {NilOptions,
     [CommonRequestOptions EXCEPT !.SessionToken = "s0", !.Continuation = "c0", !.IfMatch = "e1",
                                  !.ContentType = "text/plain"],
     [CommonRequestOptions EXCEPT !.SessionToken = "s2", !.ConsistencytLevel = "Strong"],
     [Query EXCEPT !.SessionToken = "s1", !.MaxItemCount = 5],
     RequestOptionsFunc("requestIsQuery", "")}
OptionLists ==
    {RequestOptionsList(l) : l \in UNION {[1 .. n -> OptionMembers] : n \in 0 .. MaxListLen}}
OptionInputs ==
    [opt : CommonOptionValues \cup QueryOptionValues \cup OptionLists, method : OptionMethods]

InitOptions ==
    /\ client = OCCClient /\ InitCall /\ InitWorkers /\ InitSignIdle /\ InitBodyIdle
    /\ InitCallsIdle /\ InitRunsIdle
    /\ optInput \in OptionInputs
    /\ optHdrs \in {<<h>> : h \in PriorHeaders}

\* opt.ApplyOptions(req) on the request as the calls before left it
ApplyOptionsCall ==
    /\ Len(optHdrs) \in 1 .. MaxApply
    /\ optHdrs' = Append(optHdrs, ApplyOptions(optInput.opt, optInput.method, optHdrs[Len(optHdrs)]))
    /\ UNCHANGED <<optInput, clientVars, occVars, signVars, bodyVars, callVars, runVars>>

NextOptions == ApplyOptionsCall
SpecOptions == InitOptions /\ [][NextOptions]_vars

(***************************************************************************)
(* The signer: MasterKey.Authorize is called on a request that may carry   *)
(* headers already, and Client.NewHTTPRequest builds a request whose       *)
(* options write the headers of the signer before it signs.                *)
(***************************************************************************)
\* a MasterKey that was never set, the key of an empty AccountKey, and a key
SignKeys == {NilMasterKey, ParseMasterKey("").key, ParseMasterKey("a2V5").key}
SignDates == {"Thu, 01 Jan 1970 00:00:00 GMT", "Sat, 03 Jan 1970 00:00:00 GMT"}
FreshHeader == HeaderSet(EmptyHeader, HeaderUserAgent, DefaultUserAgent)
CallerDate == "Fri, 02 Jan 1970 00:00:00 GMT"
CallerVersion == "2018-12-31"
CallerToken == "caller-token"
SignHeaders ==
    {FreshHeader,
     HeaderSet(FreshHeader, HeaderMSAPIVersion, CallerVersion),
     HeaderSet(FreshHeader, HeaderMSAPIVersion, ""),
     HeaderSet(HeaderSet(HeaderSet(FreshHeader, HeaderMSAPIVersion, CallerVersion),
                         HeaderMSDate, CallerDate),
               HeaderAuthorization, CallerToken)}
\* a Query with pagination fields and with RequestOptions of its own
QueryWithOptions ==
    [Query EXCEPT !.MaxItemCount = 5, !.Continuation = "c0",
                  !.RequestOptions = RequestOptionsFunc("x-request-id", "foo")]
SignOptions ==
    {NilOptions,
     RequestOptionsFunc(HeaderMSDate, CallerDate),
     RequestOptionsFunc(HeaderMSAPIVersion, CallerVersion),
     RequestOptionsList(<<RequestOptionsFunc(HeaderAuthorization, CallerToken),
                          RequestOptionsFunc(HeaderMSDate, CallerDate)>>),
     QueryWithOptions}
SignInputs ==
    [k : SignKeys,
     r : [Method : {"GET", "POST"}, Path : {"/dbs/db1/colls/col1/docs"}, Header : SignHeaders],
     resourceType : {"docs", "Docs"}, resourceLink : {"dbs/db1/colls/col1"},
     date : SignDates, options : SignOptions]
\* the arguments of two calls with one key; some hold a line feed
PairInputs ==
    [k : {ParseMasterKey("a2V5").key},
     r : [Method : {"GET", "get", "POST"}, Path : {"/dbs/db1/colls/col1/docs"},
          Header : {FreshHeader}],
     resourceType : {"docs", "Docs", "colls", "docs\ncolls"},
     resourceLink : {"dbs/db1", "docs", "colls", "colls\ndbs/db1"},
     date : SignDates, options : {NilOptions}]

InitSign ==
    /\ client = OCCClient /\ InitCall /\ InitWorkers /\ InitOptionsIdle /\ InitBodyIdle
    /\ InitCallsIdle /\ InitRunsIdle
    /\ signIn \in {<<x>> : x \in SignInputs} /\ signOut = <<>>
InitSignPair ==
    /\ client = OCCClient /\ InitCall /\ InitWorkers /\ InitOptionsIdle /\ InitBodyIdle
    /\ InitCallsIdle /\ InitRunsIdle
    /\ signIn \in {<<a, b>> : a \in PairInputs, b \in PairInputs} /\ signOut = <<>>

\* k.Authorize(r, resourceType, resourceLink) with the next arguments
AuthorizeCall ==
    /\ Len(signOut) < Len(signIn)
    /\ LET x == signIn[Len(signOut) + 1]
       IN  signOut' = Append(signOut,
                [fn |-> "Authorize",
                 res |-> Authorize(x.k, x.r, x.resourceType, x.resourceLink, x.date, FALSE)])
    /\ UNCHANGED <<signIn, clientVars, occVars, optVars, bodyVars, callVars, runVars>>

\* c.NewHTTPRequest(ctx, request) of a client whose Authorizer is the key, with a
\* request of the next arguments
NewHTTPRequestCall ==
    /\ Len(signOut) < Len(signIn)
    /\ LET x == signIn[Len(signOut) + 1]
       IN  signOut' = Append(signOut,
                [fn |-> "NewHTTPRequest",
                 res |-> NewHTTPRequest([UserAgent |-> "", Authorizer |-> x.k], "nil",
                            [Method |-> x.r.Method, Path |-> x.r.Path,
                             ResourceType |-> x.resourceType, ResourceLink |-> x.resourceLink,
                             Options |-> x.options],
                            x.date, FALSE)])
    /\ UNCHANGED <<signIn, clientVars, occVars, optVars, bodyVars, callVars, runVars>>

NextSign == AuthorizeCall \/ NewHTTPRequestCall
SpecSign == InitSign /\ [][NextSign]_vars

NextSignPair == AuthorizeCall
SpecSignPair == InitSignPair /\ [][NextSignPair]_vars

(***************************************************************************)
(* The body of a request.  A reader [buf, off, err] yields the bytes of    *)
(* buf after off and fails when err holds; ClientRequest.Body names a      *)
(* reader (NilReader for nil) and ClientRequest.GetBody is a function      *)
(* [set, data] that, when set, returns a new reader of data at each call.  *)
(***************************************************************************)
Bytes == {0, 1}
Bodies == UNION {[1 .. n -> Bytes] : n \in 0 .. MaxBodyLen}
ErrRead == Error("body: read failed")
\* the bytes a reader has yet to yield
Remaining(rd) == SubSeq(rd.buf, rd.off + 1, Len(rd.buf))
\* ioutil.ReadAll(reader id): [err, data, readers]
ReadAll(rds, id) ==
    IF rds[id].err THEN [err |-> ErrRead, data |-> <<>>, readers |-> rds]
    ELSE [err |-> Nil, data |-> Remaining(rds[id]),
          readers |-> [rds EXCEPT ![id].off = Len(rds[id].buf)]]
\* bytes.NewBuffer(data): the readers with the new one, which is the last
NewBuffer(rds, data) == Append(rds, [buf |-> data, off |-> 0, err |-> FALSE])
\* a call of the function g: [reader, readers]
CallGetBody(g, rds) == [reader |-> Len(rds) + 1, readers |-> NewBuffer(rds, g.data)]

\* a GetBody that yields what is left in the reader the caller supplied
reusableBodySpent(creq, rds) ==
    IF creq.Body # NilReader /\ ~creq.GetBody.set
    THEN LET all == ReadAll(rds, creq.Body)
         IN  [err |-> all.err,
              creq |-> [Body |-> Len(all.readers) + 1,
                        GetBody |-> [set |-> TRUE, data |-> Remaining(all.readers[creq.Body])]],
              readers |-> NewBuffer(all.readers, all.data)]
    ELSE [err |-> Nil, creq |-> creq, readers |-> rds]

\* ClientRequest.reusableBody on creq = [Body, GetBody]: [err, creq, readers]
reusableBody(creq, rds) ==
    IF creq.Body = NilReader /\ creq.GetBody.set
    THEN LET body == CallGetBody(creq.GetBody, rds)
             all == ReadAll(body.readers, body.reader)
         IN  IF all.err # Nil THEN [err |-> all.err, creq |-> creq, readers |-> all.readers]
             ELSE [err |-> Nil, creq |-> [creq EXCEPT !.Body = Len(all.readers) + 1],
                   readers |-> NewBuffer(all.readers, all.data)]
    ELSE IF creq.Body # NilReader /\ ~creq.GetBody.set
    THEN LET all == ReadAll(rds, creq.Body)
         IN  IF all.err # Nil THEN [err |-> all.err, creq |-> creq, readers |-> all.readers]
             ELSE [err |-> Nil,
                   creq |-> [Body |-> Len(all.readers) + 1,
                             GetBody |-> [set |-> TRUE, data |-> all.data]],
                   readers |-> NewBuffer(all.readers, all.data)]
    ELSE [err |-> Nil, creq |-> creq, readers |-> rds]

\* the ClientRequest bodies of the model: a Body reader alone, which may fail, a GetBody
\* alone, or neither
BodyInputs ==
    {[kind |-> "Body", data |-> d, err |-> e] : d \in Bodies, e \in BOOLEAN}
    \cup {[kind |-> "GetBody", data |-> d, err |-> FALSE] : d \in Bodies}
    \cup {NoBodyIn}
InitBody ==
    /\ client = OCCClient /\ InitCall /\ InitWorkers /\ InitOptionsIdle /\ InitSignIdle
    /\ InitCallsIdle /\ InitRunsIdle
    /\ bodyIn \in BodyInputs
    /\ readers = IF bodyIn.kind = "Body"
                 THEN <<[buf |-> bodyIn.data, off |-> 0, err |-> bodyIn.err]>> ELSE <<>>
    /\ hbody = NoHBody /\ replays = <<>>

\* the body part of Client.NewHTTPRequest: reusableBody on the copy of the request, then
\* http.NewRequest with req.Body, then hreq.GetBody = req.GetBody
NewHTTPRequestBody ==
    /\ hbody.state = "idle"
    /\ LET creq == [Body |-> IF bodyIn.kind = "Body" THEN 1 ELSE NilReader,
                    GetBody |-> IF bodyIn.kind = "GetBody"
                                THEN [set |-> TRUE, data |-> bodyIn.data] ELSE NoGetBody]
           b == reusableBody(creq, readers)
       IN  /\ readers' = b.readers
           /\ hbody' = IF b.err # Nil THEN [NoHBody EXCEPT !.state = "failed"]
                        ELSE [state |-> "built", Body |-> b.creq.Body, GetBody |-> b.creq.GetBody]
    /\ UNCHANGED <<bodyIn, replays, clientVars, occVars, optVars, signVars, callVars, runVars>>

\* a call of hreq.GetBody
GetBody ==
    /\ hbody.state = "built" /\ hbody.GetBody.set
    /\ Len(replays) < MaxGetBody
    /\ LET g == CallGetBody(hbody.GetBody, readers)
       IN  /\ readers' = g.readers
           /\ replays' = Append(replays, [reader |-> g.reader,
                                          yields |-> Remaining(g.readers[g.reader])])
    /\ UNCHANGED <<bodyIn, hbody, clientVars, occVars, optVars, signVars, callVars, runVars>>

\* the transport reads n bytes of the Body of the request or of a reader GetBody returned
ReadBody ==
    /\ hbody.state = "built"
    /\ \E id \in ({hbody.Body} \ {NilReader}) \cup {replays[i].reader : i \in 1 .. Len(replays)} :
        \E n \in 1 .. Len(Remaining(readers[id])) :
            readers' = [readers EXCEPT ![id].off = @ + n]
    /\ UNCHANGED <<bodyIn, hbody, replays, clientVars, occVars, optVars, signVars, callVars, runVars>>

NextBody == NewHTTPRequestBody \/ GetBody \/ ReadBody
SpecBody == InitBody /\ [][NextBody]_vars

(***************************************************************************)
(* The resource clients.  A client of a database, collection, document,    *)
(* stored procedure, user-defined function or offer builds the             *)
(* ClientRequest it hands to an operation of the Client; CreateDocument    *)
(* and ReplaceDocument first choose the body with json().  A call ends     *)
(* here with the ClientRequest handed over (called) or with the error      *)
(* returned before.                                                        *)
(***************************************************************************)
\* url.PathEscape on the identifiers of the model
PathEscape(s) ==
    CASE s = "My Doc" -> "My%20Doc"
      [] s = "a/b" -> "a%2Fb"
      [] OTHER -> s
\* ResourceLink() of the client c of the given kind; an offer has no such method
ResourceLink(kind, c) ==
    LET db == "dbs/" \o PathEscape(c.DatabaseID)
        coll == db \o "/colls/" \o PathEscape(c.CollectionID)
    IN  CASE kind = "dbs" -> db
          [] kind = "colls" -> coll
          [] kind = "docs" -> coll \o "/docs/" \o PathEscape(c.ID)
          [] kind = "sprocs" -> coll \o "/sprocs/" \o PathEscape(c.ID)
          [] kind = "udfs" -> coll \o "/udfs/" \o PathEscape(c.ID)
          [] OTHER -> "offers/" \o PathEscape(c.ID)
\* the ClientRequest of GetRaw of the client c: [Method, Path, ResourceType, ResourceLink, Body]
GetRawRequest(kind, c) ==
    IF kind = "offers"
    THEN [Method |-> "", Path |-> "/offers/" \o c.ID, ResourceType |-> "offers",
          ResourceLink |-> ToLower(c.ID), Body |-> ""]
    ELSE [Method |-> "", Path |-> "/" \o ResourceLink(kind, c), ResourceType |-> kind,
          ResourceLink |-> ResourceLink(kind, c), Body |-> ""]

\* json.Marshal of the Document of a request: nil or a document
Marshal(document) == IF document = "nil" THEN "null" ELSE "{\"id\":\"d1\"}"
ErrMustSet == Error("interstellar: must set either a Document or a Body")
\* CreateDocumentRequest.json and ReplaceDocumentRequest.json on a request with
\* Document and Body = [isNil, bytes]: [err, body]
json(r) ==
    IF r.Body.isNil /\ r.Document = "nil" THEN [err |-> ErrMustSet, body |-> ""]
    ELSE IF r.Body.bytes = "" THEN [err |-> Nil, body |-> Marshal(r.Document)]
    ELSE [err |-> Nil, body |-> r.Body.bytes]

NoClientRequest == [Method |-> "", Path |-> "", ResourceType |-> "", ResourceLink |-> "", Body |-> ""]
Called(fn, creq) ==
    [fn |-> fn, err |-> Nil, called |-> TRUE, request |-> creq, text |-> "", other |-> "",
     status |-> 0]
Failed(fn, err) ==
    [fn |-> fn, err |-> err, called |-> FALSE, request |-> NoClientRequest, text |-> "",
     other |-> "", status |-> 0]
\* a call that returns a text for each of the two values it was made on
Rendered(fn, text, other) ==
    [fn |-> fn, err |-> Nil, called |-> FALSE, request |-> NoClientRequest, text |-> text,
     other |-> other, status |-> 0]

ResourceKinds == {"dbs", "colls", "docs", "sprocs", "udfs", "offers"}
ResourceIDs == {"d1", "My Doc", "a/b", "Ab3"}
ResourceInputs ==
    [fn : {"resource"}, kind : ResourceKinds, DatabaseID : {"db1", "My Doc"},
     CollectionID : {"col1", "a/b"}, ID : ResourceIDs, Document : {"nil", "doc"},
     Body : {[isNil |-> TRUE, bytes |-> ""], [isNil |-> FALSE, bytes |-> ""],
             [isNil |-> FALSE, bytes |-> "{\"id\":\"b1\"}"]}]

\* GetRaw of the client of callIn.kind, up to its call of Client.GetResource
GetRaw ==
    /\ callIn.fn = "resource" /\ callOut = NoCall
    /\ callOut' = Called("GetRaw", GetRawRequest(callIn.kind, callIn))
    /\ UNCHANGED <<callIn, clientVars, occVars, optVars, signVars, bodyVars, runVars>>

\* CollectionClient.CreateDocument, up to its call of Client.CreateOrReplaceResource
CreateDocument ==
    /\ callIn.fn = "resource" /\ callIn.kind = "colls" /\ callOut = NoCall
    /\ LET body == json(callIn)
           rl == ResourceLink("colls", callIn)
       IN  callOut' = IF body.err # Nil THEN Failed("CreateDocument", body.err)
                      ELSE Called("CreateDocument",
                                  [Method |-> "", Path |-> "/" \o rl \o "/docs",
                                   ResourceType |-> "docs", ResourceLink |-> rl,
                                   Body |-> body.body])
    /\ UNCHANGED <<callIn, clientVars, occVars, optVars, signVars, bodyVars, runVars>>

\* DocumentClient.ReplaceDocument, up to its call of Client.CreateOrReplaceResource
ReplaceDocument ==
    /\ callIn.fn = "resource" /\ callIn.kind = "docs" /\ callOut = NoCall
    /\ LET body == json(callIn)
           rl == ResourceLink("docs", callIn)
       IN  callOut' = IF body.err # Nil THEN Failed("ReplaceDocument", body.err)
                      ELSE Called("ReplaceDocument",
                                  [Method |-> "PUT", Path |-> "/" \o rl,
                                   ResourceType |-> "docs", ResourceLink |-> rl,
                                   Body |-> body.body])
    /\ UNCHANGED <<callIn, clientVars, occVars, optVars, signVars, bodyVars, runVars>>

(***************************************************************************)
(* The text of a Query.  A Query value of Go is nil or holds the query     *)
(* text, the parameters [Name, Value, Sensitive] and the fields of the     *)
(* pagination; a parameter value is a string or an int, written here with  *)
(* its decimal digits.  String() and json.Marshal are called on a pair of  *)
(* queries so that their texts can be compared.                            *)
(***************************************************************************)
MaxParameters == 2
NilQuery == [isNil |-> TRUE]
ParameterValues ==
    {[t |-> "string", s |-> "john.doe@example.com"], [t |-> "string", s |-> "jane"],
     [t |-> "int", s |-> "7"]}
QueryParameters == [Name : {"@email"}, Value : ParameterValues, Sensitive : BOOLEAN]
QueryTexts ==
    {NilQuery} \cup
    [isNil : {FALSE}, Query : {"SELECT * FROM c WHERE c.email = @email"},
     Parameters : UNION {[1..n -> QueryParameters] : n \in 0..MaxParameters},
     MaxItemCount : {0, 10}]

\* fmt's %#v of a parameter value: a string quoted, an int in decimal
GoSyntax(v) == IF v.t = "string" THEN "\"" \o v.s \o "\"" ELSE v.s
\* a QueryParameter.String that prints the value whatever the flag
ParameterStringPlain(p) == p.Name \o ": " \o GoSyntax(p.Value)
\* QueryParameter.String
ParameterString(p) ==
    IF p.Sensitive THEN p.Name \o ": !(sensitive)"
    ELSE p.Name \o ": " \o GoSyntax(p.Value)
\* Query.String
QueryString(q) ==
    IF q.isNil THEN ""
    ELSE q.Query \o ";" \o
         (IF Len(q.Parameters) > 0
          THEN " [" \o Join([i \in 1..Len(q.Parameters) |-> ParameterString(q.Parameters[i])],
                            ", ") \o "]"
          ELSE "")

\* encoding/json of a parameter value and of a string without characters to escape
MarshalValue(v) == IF v.t = "string" THEN "\"" \o v.s \o "\"" ELSE v.s
MarshalString(s) == "\"" \o s \o "\""
\* encoding/json of a QueryParameter: the fields name and value; Sensitive is tagged "-"
MarshalParameter(p) ==
    "{\"name\":" \o MarshalString(p.Name) \o ",\"value\":" \o MarshalValue(p.Value) \o "}"
\* encoding/json of a *Query: the fields query and parameters (omitempty); every other
\* field is tagged "-"
MarshalQuery(q) ==
    IF q.isNil THEN "null"
    ELSE "{\"query\":" \o MarshalString(q.Query) \o
         (IF Len(q.Parameters) > 0
          THEN ",\"parameters\":[" \o
               Join([i \in 1..Len(q.Parameters) |-> MarshalParameter(q.Parameters[i])], ",")
               \o "]"
          ELSE "") \o "}"

QueryInputs == [fn : {"query"}, q : QueryTexts, q2 : QueryTexts]

\* q.String() on both queries
String ==
    /\ callIn.fn = "query" /\ callOut = NoCall
    /\ callOut' = Rendered("String", QueryString(callIn.q), QueryString(callIn.q2))
    /\ UNCHANGED <<callIn, clientVars, occVars, optVars, signVars, bodyVars, runVars>>

\* json.Marshal on both queries
MarshalJSON ==
    /\ callIn.fn = "query" /\ callOut = NoCall
    /\ callOut' = Rendered("MarshalJSON", MarshalQuery(callIn.q), MarshalQuery(callIn.q2))
    /\ UNCHANGED <<callIn, clientVars, occVars, optVars, signVars, bodyVars, runVars>>

(***************************************************************************)
(* The status of an error.  An operation of the Client turns the status of *)
(* a response into an error with its status switch; a caller asks an error *)
(* of the type Error for its Status().                                     *)
(***************************************************************************)
\* Error.Status
Status(e) ==
    CASE e = ErrResourceNotModified -> StatusNotModified
      [] e = ErrResourceNotFound -> StatusNotFound
      [] OTHER -> 0
\* the error the status switch of the operation returns for a response r
StatusSwitch(operation, r) ==
    CASE operation = "ListResources" -> ListStatusError(r)
      [] operation = "GetResource" -> GetResourceStatus(r).err
      [] operation = "CreateOrReplaceResource" -> CreateOrReplaceResourceStatus(r).err
      [] OTHER -> DeleteResourceStatus(r).err
StatusInputs ==
    [fn : {"status"},
     operation : {"ListResources", "GetResource", "CreateOrReplaceResource", "DeleteResource"},
     StatusCode : {StatusNotModified, StatusNotFound, StatusPreconditionFailed}]

\* err.Status() on the error an operation returns for a response of callIn.StatusCode
ErrorStatus ==
    /\ callIn.fn = "status" /\ callOut = NoCall
    /\ LET err == StatusSwitch(callIn.operation,
                               [StatusCode |-> callIn.StatusCode, Header |-> EmptyHeader,
                                Body |-> NoBody])
       IN  callOut' = [Failed("Status", err) EXCEPT !.status = Status(err)]
    /\ UNCHANGED <<callIn, clientVars, occVars, optVars, signVars, bodyVars, runVars>>

CallInputs == ResourceInputs \cup QueryInputs \cup StatusInputs

InitCalls ==
    /\ client = OCCClient /\ InitCall /\ InitWorkers /\ InitOptionsIdle /\ InitSignIdle
    /\ InitBodyIdle /\ InitRunsIdle
    /\ callIn \in CallInputs /\ callOut = NoCall
NextCalls ==
    GetRaw \/ CreateDocument \/ ReplaceDocument \/ String \/ MarshalJSON \/ ErrorStatus
SpecCalls == InitCalls /\ [][NextCalls]_vars

(***************************************************************************)
(* Runs of ListResources with a body.  Two goroutines call                 *)
(* ListResources on one Client, each with a ClientRequest of its own whose *)
(* body is a Body reader, a GetBody function or both.  The transport       *)
(* answers the requests of a run from the script of the run: pages with a  *)
(* continuation token, then a last page or a transport error; the consumer *)
(* returns (true, nil) on every page.  A run is the record                 *)
(* [pc, in, request, body, hreq, resp, sent, pages, ret]; the readers of   *)
(* all runs live in readers.                                               *)
(***************************************************************************)
MaxRunPages == 2
\* two goroutines
Runs == {1, 2}
\* the body of the request of each run
RunBody(i) == <<<<0, 1>>, <<1>>, <<1, 0>>>>[i]
\* the continuation and the session token of the response k of the run i
RunCursor(i, k) ==
    <<<<"c11", "c12", "c13">>, <<"c21", "c22", "c23">>, <<"c31", "c32", "c33">>>>[i][k]
RunSession(i, k) ==
    <<<<"s11", "s12", "s13", "s14">>, <<"s21", "s22", "s23", "s24">>,
      <<"s31", "s32", "s33", "s34">>>>[i][k]
\* what the transport returns to the request k of the run with the script sc
ScriptOutcome(i, sc, k) ==
    IF k <= sc.pages
    THEN [err |-> Nil,
          resp |-> [StatusCode |-> StatusOK,
                    Header |-> ResponseHeader(RunCursor(i, k), RunSession(i, k), ""),
                    Body |-> JSONObject([x \in {"Documents"} |-> RawArray(<<RunCursor(i, k)>>)])]]
    ELSE IF sc.end = "error" THEN [err |-> ErrTransport, resp |-> NoResp]
    ELSE [err |-> Nil,
          resp |-> [StatusCode |-> StatusOK,
                    Header |-> ResponseHeader("", RunSession(i, k), ""),
                    Body |-> JSONObject([x \in {"Documents"} |-> RawArray(<<"last">>)])]]
RunInputs(i) ==
    [id : {i}, Method : {"", "POST"}, kind : {"Body", "GetBody", "both"},
     script : [pages : 1 .. MaxRunPages, end : {"last", "error"}]]

\* ClientRequest.readEntireBody on creq: [err, isNil, data, creq, readers]
readEntireBody(creq, rds) ==
    IF creq.Body # NilReader
    THEN LET all == ReadAll(rds, creq.Body)
         IN  IF all.err # Nil
             THEN [err |-> all.err, isNil |-> TRUE, data |-> <<>>, creq |-> creq,
                   readers |-> all.readers]
             ELSE [err |-> Nil, isNil |-> FALSE, data |-> all.data,
                   creq |-> [creq EXCEPT !.Body = Len(all.readers) + 1],
                   readers |-> NewBuffer(all.readers, all.data)]
    ELSE IF creq.GetBody.set
    THEN LET rc == CallGetBody(creq.GetBody, rds)
             all == ReadAll(rc.readers, rc.reader)
         IN  [err |-> all.err, isNil |-> all.err # Nil, data |-> all.data, creq |-> creq,
              readers |-> all.readers]
    ELSE [err |-> Nil, isNil |-> TRUE, data |-> <<>>, creq |-> creq, readers |-> rds]

\* Client.NewHTTPRequest on a ClientRequest with a body: reusableBody works on the copy
\* of the request, so that the request of the caller keeps its Body and GetBody.
\* Result: [err, hreq, readers], hreq = [Method, Path, Header, Context, Body].
NewHTTPRequestWithBody(c, cx, creq, date, rds) ==
    LET b == reusableBody([Body |-> creq.Body, GetBody |-> creq.GetBody], rds)
        built == NewHTTPRequest(c, cx, creq, date, FALSE)
        err == IF b.err # Nil THEN b.err ELSE built.err
    IN  [err |-> err,
         hreq |-> [Method |-> built.req.Method, Path |-> built.req.Path,
                   Header |-> built.req.Header, Context |-> built.req.Context,
                   Body |-> b.creq.Body],
         readers |-> b.readers]

NoHReq == [Method |-> "", Path |-> "", Header |-> EmptyHeader, Context |-> "", Body |-> NilReader]
\* the run of the input x before its first step; its Body reader, if any, is the reader id
NewRun(x, id) ==
    [pc |-> "start", in |-> x,
     request |-> [Method |-> x.Method, Path |-> "/dbs/db1/colls/col1/docs",
                  ResourceType |-> "docs", ResourceLink |-> "dbs/db1/colls/col1",
                  Options |-> NilOptions,
                  Body |-> IF x.kind \in {"Body", "both"} THEN id ELSE NilReader,
                  GetBody |-> IF x.kind \in {"GetBody", "both"}
                              THEN [set |-> TRUE, data |-> RunBody(x.id)] ELSE NoGetBody],
     body |-> [isNil |-> TRUE, data |-> <<>>],
     hreq |-> NoHReq, resp |-> NoResp, sent |-> <<>>, pages |-> <<>>, ret |-> Nil]
\* the readers the callers made: the reader i holds the body of the run i
RunReaders == [i \in Runs |-> [buf |-> RunBody(i), off |-> 0, err |-> FALSE]]

\* the run returns err
RunReturn(run, err, rds) == [run |-> [run EXCEPT !.pc = "done", !.ret = err], readers |-> rds]

\* ListResources up to the first request built: [run, readers]; built is the one result
\* of the NewHTTPRequest call
RunStart(c, run, date, rds) ==
    LET m == ToUpper(run.request.Method)
        read == IF m = "POST"
                THEN readEntireBody([Body |-> run.request.Body, GetBody |-> run.request.GetBody],
                                    rds)
                ELSE [err |-> Nil, isNil |-> TRUE, data |-> <<>>,
                      creq |-> [Body |-> run.request.Body, GetBody |-> run.request.GetBody],
                      readers |-> rds]
        request2 == [run.request EXCEPT !.Method = IF m = "" THEN "GET" ELSE m,
                                        !.Options = ListOptionsFor(m, run.request.Options),
                                        !.Body = read.creq.Body]
    IN  IF ~ListMethodAccepted(m) THEN RunReturn(run, ErrInvalidMethodList, rds)
        ELSE IF read.err # Nil THEN RunReturn(run, read.err, read.readers)
        ELSE CHOOSE s \in
                {IF built.err # Nil
                 THEN RunReturn([run EXCEPT !.request = request2], built.err, built.readers)
                 ELSE [run |-> [run EXCEPT !.pc = "Requesting", !.request = request2,
                                           !.body = [isNil |-> read.isNil, data |-> read.data],
                                           !.hreq = built.hreq],
                       readers |-> built.readers] :
                 built \in {NewHTTPRequestWithBody(c, "ctx1", request2, date, read.readers)}} :
                TRUE

\* c.Requester.Do(req): the transport sends what the Body of the request yields and
\* answers from the script; then the status check.  [run, readers]
RunDo(run, rds) ==
    LET k == Len(run.sent) + 1
        o == ScriptOutcome(run.in.id, run.in.script, k)
        carried == IF run.hreq.Body = NilReader THEN <<>> ELSE Remaining(rds[run.hreq.Body])
        rds2 == IF run.hreq.Body = NilReader THEN rds
                ELSE [rds EXCEPT ![run.hreq.Body].off = Len(rds[run.hreq.Body].buf)]
        run2 == [run EXCEPT !.sent = Append(run.sent,
                                [Continuation |-> HeaderGet(run.hreq.Header, HeaderContinuation),
                                 SessionToken |-> HeaderGet(run.hreq.Header, HeaderSessionToken),
                                 Body |-> carried])]
    IN  IF o.err # Nil THEN RunReturn(run2, DoError(o.err), rds2)
        ELSE IF ListStatusError(o.resp) # Nil
        THEN RunReturn([run2 EXCEPT !.resp = o.resp], ListStatusError(o.resp), rds2)
        ELSE IF ParseArrayFromResponse(o.resp.Body, "Documents").err # Nil
        THEN RunReturn([run2 EXCEPT !.resp = o.resp],
                       ParseArrayFromResponse(o.resp.Body, "Documents").err, rds2)
        ELSE [run |-> [run2 EXCEPT !.pc = "Delivering", !.resp = o.resp], readers |-> rds2]

\* the metadata of the response of the run i, as a value all runs share
RunMetaShared(rs, i) == GetResponseMetadata(rs[1].resp)
\* meta := GetResponseMetadata(resp) of the run i
RunMeta(rs, i) == GetResponseMetadata(rs[i].resp)

\* fn(results, meta) and what follows up to the next request built.  [run, readers]
RunDeliver(c, run, md, date, rds) ==
    LET page == ParseArrayFromResponse(run.resp.Body, "Documents").list
        run2 == [run EXCEPT !.pages = Append(run.pages, page)]
        rds2 == IF run.body.isNil THEN rds ELSE NewBuffer(rds, run.body.data)
        request2 == IF run.body.isNil THEN run.request
                    ELSE [run.request EXCEPT !.Body = Len(rds2)]
    IN  IF AfterConsumer(TRUE, Nil) # "more" THEN RunReturn(run2, Nil, rds)
        ELSE IF ~HasContinuation(run.resp) THEN RunReturn(run2, Nil, rds)
        ELSE CHOOSE s \in
                {IF built.err # Nil
                 THEN RunReturn([run2 EXCEPT !.request = request2], built.err, built.readers)
                 ELSE [run |-> [run2 EXCEPT !.pc = "Requesting", !.request = request2,
                                            !.hreq = [built.hreq EXCEPT
                                                !.Header = EchoCursor(built.hreq.Header, md)]],
                       readers |-> built.readers] :
                 built \in {NewHTTPRequestWithBody(c, "ctx1", request2, date, rds2)}} :
                TRUE

RECURSIVE RunAlone(_, _, _, _)
\* the run as it ends when no other run takes a step
RunAlone(c, run, date, rds) ==
    IF run.pc = "done" THEN run
    ELSE CHOOSE end \in
            {RunAlone(c, s.run, date, s.readers) :
             s \in {CASE run.pc = "start" -> RunStart(c, run, date, rds)
                      [] run.pc = "Requesting" -> RunDo(run, rds)
                      [] OTHER -> RunDeliver(c, run, GetResponseMetadata(run.resp), date,
                                             rds)}} : TRUE

InitRuns ==
    /\ client = OCCClient /\ InitCall /\ InitWorkers /\ InitOptionsIdle /\ InitSignIdle
    /\ InitCallsIdle
    /\ bodyIn = NoBodyIn /\ hbody = NoHBody /\ replays = <<>>
    /\ \E xs \in [Runs -> UNION {RunInputs(i) : i \in Runs}] :
          /\ \A i \in Runs : xs[i].id = i
          /\ runs = [i \in Runs |-> NewRun(xs[i], i)]
          /\ readers = RunReaders

\* the goroutine i calls ListResources
Start(i) ==
    /\ runs[i].pc = "start"
    /\ \E d \in Dates : \E s \in {RunStart(client, runs[i], d, readers)} :
        runs' = [runs EXCEPT ![i] = s.run] /\ readers' = s.readers
    /\ UNCHANGED <<bodyIn, hbody, replays, clientVars, occVars, optVars, signVars, callVars>>

\* the transport call of the run i
Do(i) ==
    /\ runs[i].pc = "Requesting"
    /\ \E s \in {RunDo(runs[i], readers)} :
        runs' = [runs EXCEPT ![i] = s.run] /\ readers' = s.readers
    /\ UNCHANGED <<bodyIn, hbody, replays, clientVars, occVars, optVars, signVars, callVars>>

\* the consumer call of the run i
Deliver(i) ==
    /\ runs[i].pc = "Delivering"
    /\ \E d \in Dates : \E s \in {RunDeliver(client, runs[i], RunMeta(runs, i), d, readers)} :
        runs' = [runs EXCEPT ![i] = s.run] /\ readers' = s.readers
    /\ UNCHANGED <<bodyIn, hbody, replays, clientVars, occVars, optVars, signVars, callVars>>

NextRuns == \E i \in Runs : Start(i) \/ Do(i) \/ Deliver(i)
SpecRuns == InitRuns /\ [][NextRuns]_vars

(***************************************************************************)
(* The properties.                                                         *)
(***************************************************************************)
IsList == op = "ListResources"
IsSingle == op \in {"GetResource", "CreateOrReplaceResource", "DeleteResource"}
\* a response has been received in this call
Received == resp.StatusCode # 0

\* C1: in a ListResources run in which every response so far was a 200 with the key
\* and every consumer return was (true, nil), no request follows the first response
\* without a continuation token, and the run returns nil exactly after it: N transport
\* calls and N consumer invocations, N the number of that response.
C1_ExactlyNRequests ==
    (IsList /\ clean) =>
        /\ pc = "done" => (ret.err = Nil /\ firstNoCont # 0 /\ nCalls = firstNoCont
                           /\ nConsumer = firstNoCont)
        /\ pc = "Requesting" => (firstNoCont = 0 /\ nConsumer = nCalls)
        /\ pc = "Delivering" => (firstNoCont \in {0, nCalls} /\ nConsumer = nCalls - 1)
C1_Witness == IsList /\ clean /\ pc = "done" /\ nCalls = 3

\* C2: once the consumer has returned (false, nil) on page k whose response carried a
\* continuation token, ListResources has returned nil, and the numbers of transport calls
\* and of consumer invocations stay k.
C2_EarlyStop ==
    (IsList /\ stopPage # 0 /\ stopFn = [ok |-> FALSE, err |-> Nil] /\ stopCont # "") =>
        (pc = "done" /\ ret.err = Nil /\ nCalls = stopPage /\ nConsumer = stopPage)
C2_Witness ==
    IsList /\ stopPage = 2 /\ stopFn = [ok |-> FALSE, err |-> Nil] /\ stopCont # "" /\ pc = "done"

\* C3: every continuation request of ListResources carries the continuation and the
\* session token of the response received last, whatever the request options set.
C3_CursorEcho ==
    (IsList /\ pc = "Requesting" /\ nCalls >= 1) =>
        /\ HeaderGet(req.Header, HeaderContinuation) = HeaderGet(resp.Header, HeaderContinuation)
        /\ HeaderGet(req.Header, HeaderSessionToken) = HeaderGet(resp.Header, HeaderSessionToken)
C3_Witness ==
    /\ IsList /\ pc = "Requesting" /\ nCalls = 2
    /\ inMethod = "" /\ request.Options.kind = "CommonRequestOptions"
    /\ request.Options.Continuation = "c0" /\ request.Options.SessionToken = "s0"
    /\ HeaderGet(resp.Header, HeaderContinuation) = "c1"
    /\ HeaderGet(resp.Header, HeaderSessionToken) = ""

\* C4: once the consumer has returned a non-nil error on page k, ListResources has
\* returned that error, and the numbers of transport calls and of consumer invocations
\* stay k, whatever boolean came with the error and whether or not the response carried
\* a continuation token.
C4_ConsumerError ==
    (IsList /\ stopPage # 0 /\ stopFn.err # Nil) =>
        (pc = "done" /\ ret.err = stopFn.err /\ nCalls = stopPage /\ nConsumer = stopPage)
C4_Witness ==
    /\ IsList /\ pc = "done" /\ stopPage = 2 /\ stopCont # ""
    /\ stopFn = [ok |-> FALSE, err |-> ErrConsumer]

\* C5: when the last response of a ListResources run is a 200 whose JSON object lacks
\* the key, the run has returned ErrKeyNotFound, the consumer was not invoked for that
\* response and no request followed it.
C5_MissingKey ==
    (IsList /\ resp.StatusCode = StatusOK /\ resp.Body.valid /\ key \notin DOMAIN resp.Body.obj) =>
        (pc = "done" /\ ret.err = ErrKeyNotFound /\ nConsumer = nCalls - 1)
C5_Witness ==
    /\ IsList /\ resp.StatusCode = StatusOK /\ resp.Body.valid /\ key \notin DOMAIN resp.Body.obj
    /\ nCalls = 2 /\ HeaderGet(resp.Header, HeaderContinuation) # ""

\* C6: in GetResource, CreateOrReplaceResource and DeleteResource a 412 returns
\* ErrPreconditionFailed, a 404 returns ErrResourceNotFound, and any other non-success
\* status returns the generic HTTP error with the status and the body.
C6_StatusMapping ==
    (IsSingle /\ pc = "done" /\ Received) =>
        /\ resp.StatusCode = StatusPreconditionFailed => ret.err = ErrPreconditionFailed
        /\ resp.StatusCode = StatusNotFound => ret.err = ErrResourceNotFound
        /\ resp.StatusCode \in {StatusNotModified, 500} =>
                ret.err = NewErrorHTTPResponse(resp)

\* C7: when the last response of a ListResources run is a 304, on the first or on a
\* later request, the run has returned ErrResourceNotModified; on any other non-200
\* status it has returned a non-nil error; the consumer was not invoked for that response
\* and no request followed it.
C7_NotModified ==
    (IsList /\ Received /\ resp.StatusCode # StatusOK) =>
        /\ pc = "done" /\ ret.err # Nil /\ nConsumer = nCalls - 1
        /\ resp.StatusCode = StatusNotModified => ret.err = ErrResourceNotModified
C7_Witness ==
    IsList /\ resp.StatusCode = StatusNotModified /\ nCalls = 2 /\ nConsumer = 1 /\ pc = "done"

\* C8: DeleteResource returns true exactly when a response came and its status is 204,
\* and then a nil error; in every other case it returns false and a non-nil error.
C8_DeleteTrueIff204 ==
    (op = "DeleteResource" /\ pc = "done") =>
        /\ ret.ok <=> (nCalls = 1 /\ resp.StatusCode = StatusNoContent)
        /\ ret.ok => ret.err = Nil
        /\ ~ret.ok => ret.err # Nil
C8_Witness ==
    op = "DeleteResource" /\ pc = "done" /\ ret.ok /\ resp.StatusCode = StatusNoContent

\* C9: every worker eventually succeeds exactly once, no worker ever succeeds twice or
\* fails, and the document ends with the initial value plus 100 for every worker.
AllSucceededOnce == \A i \in Workers : worker[i].pc = "done" /\ worker[i].succeeded = 1
C9_NoLostUpdate ==
    /\ [](\A i \in Workers : worker[i].succeeded <= 1 /\ worker[i].pc # "failed")
    /\ <>[](AllSucceededOnce /\ doc.value = InitialValue + NumWorkers * 100)
C9_Witness ==
    /\ AllSucceededOnce
    /\ \E i \in Workers : worker[i].attempts >= 2

\* C10: ListResources accepts a Method that is GET or POST in any letter case or empty,
\* and rejects every other method before any transport call.
C10_ListMethods ==
    IsList =>
        IF ToUpper(inMethod) \in {"", "GET", "POST"}
        THEN ret.err # ErrInvalidMethodList
        ELSE pc = "done" /\ ret.err # Nil /\ nCalls = 0

\* C11: CreateOrReplaceResource sends an empty Method as POST and a PUT or POST in any
\* letter case as that method; for every other method it returns the invalid-method
\* error with no body and no metadata, and no request is built or sent.
C11_CreateMethods ==
    op = "CreateOrReplaceResource" =>
        IF ToUpper(inMethod) \in {"", "PUT", "POST"}
        THEN /\ ret.err # ErrInvalidMethodCreate
             /\ request.Method = (IF inMethod = "" THEN "POST" ELSE ToUpper(inMethod))
             /\ req # NoReq => req.Method = request.Method
        ELSE /\ pc = "done" /\ ret.err = ErrInvalidMethodCreate
             /\ ret.body = NoBody /\ ~ret.hasMeta
             /\ req = NoReq /\ nCalls = 0
C11_Witness ==
    op = "CreateOrReplaceResource" /\ inMethod = "DELETE" /\ pc = "done"
C11_WitnessAccepted ==
    op = "CreateOrReplaceResource" /\ inMethod = "put" /\ nCalls = 1 /\ req.Method = "PUT"

\* C12: every request of a ListResources run whose method is POST carries the
\* Content-Type application/query+json and x-ms-documentdb-isquery "true", whatever
\* Content-Type the caller's options set; a request of a GET run carries neither.
C12_QueryMarkers ==
    (IsList /\ req # NoReq) =>
        IF req.Method = "POST"
        THEN /\ HeaderGet(req.Header, HeaderContentType) = ContentTypeQueryJSON
             /\ HeaderGet(req.Header, HeaderDocDBIsQuery) = "true"
        ELSE /\ req.Method = "GET"
             /\ HeaderContentType \notin DOMAIN req.Header
             /\ HeaderDocDBIsQuery \notin DOMAIN req.Header
C12_Witness ==
    /\ IsList /\ pc = "Requesting" /\ nCalls = 2 /\ req.Method = "POST"
    /\ request.Options.kind = "RequestOptionsList"
    /\ request.Options.members[1].kind = "CommonRequestOptions"
    /\ request.Options.members[1].ContentType = "text/plain"

\* the header k of hdr: <<>> when absent, <<value>> when present
Entry(hdr, k) == IF k \in DOMAIN hdr THEN <<hdr[k]>> ELSE <<>>
AppliedOnce == Len(optHdrs) >= 2

\* C13: CommonRequestOptions.ApplyOptions writes If-Match only on PUT and DELETE,
\* If-None-Match and If-Modified-Since only on GET and Content-Type only on PUT and POST;
\* on any other method the header is exactly as it was before the call, and a header the
\* call changed holds the value of the option.
C13_CommonGating ==
    (optInput.opt.kind = "CommonRequestOptions" /\ AppliedOnce) =>
        LET o == optInput.opt
            m == optInput.method
            h0 == optHdrs[1]
            h1 == optHdrs[2]
            Gated(k, methods, v) ==
                /\ m \notin methods => Entry(h1, k) = Entry(h0, k)
                /\ Entry(h1, k) # Entry(h0, k) => (m \in methods /\ v # "" /\ h1[k] = v)
        IN  /\ Gated(HeaderIfMatch, {"PUT", "DELETE"}, o.IfMatch)
            /\ Gated(HeaderIfNoneMatch, {"GET"}, o.IfNoneMatch)
            /\ Gated(HeaderIfModifiedSince, {"GET"}, o.IfModifiedSince)
            /\ Gated(HeaderContentType, {"PUT", "POST"}, o.ContentType)
            /\ (m \in {"PUT", "DELETE"} /\ o.IfMatch # "") => HeaderGet(h1, HeaderIfMatch) = o.IfMatch
            /\ (m = "GET" /\ o.IfNoneMatch # "") => HeaderGet(h1, HeaderIfNoneMatch) = o.IfNoneMatch
            /\ (m \in {"PUT", "POST"} /\ o.ContentType # "") =>
                    HeaderGet(h1, HeaderContentType) = o.ContentType
C13_Witness ==
    /\ optInput.opt.kind = "CommonRequestOptions" /\ AppliedOnce
    /\ optInput.method = "PATCH"
    /\ optInput.opt.IfMatch = "e1" /\ optInput.opt.ContentType = "text/plain"
    /\ optInput.opt.IfNoneMatch = "e2"
    /\ HeaderGet(optHdrs[1], HeaderIfMatch) = "old"
    /\ HeaderGet(optHdrs[2], HeaderIfMatch) = "old"

\* C14: after RequestOptionsList.ApplyOptions, a header that no non-nil member writes is as
\* it was before (so an empty list changes nothing and nil members are skipped), and a
\* header that members write holds what the last of them in list order writes.
C14_ListOrder ==
    (optInput.opt.kind = "RequestOptionsList" /\ AppliedOnce) =>
        LET l == optInput.opt.members
            m == optInput.method
            h0 == optHdrs[1]
            h1 == optHdrs[2]
            Alone(i) == ApplyOptions(l[i], m, EmptyHeader)
            Names == DOMAIN h0 \cup DOMAIN h1 \cup UNION {DOMAIN Alone(i) : i \in 1 .. Len(l)}
            Writers(k) == {i \in 1 .. Len(l) : l[i].kind # "nil" /\ k \in DOMAIN Alone(i)}
            Last(S) == CHOOSE i \in S : \A j \in S : j <= i
        IN  \A k \in Names :
                IF Writers(k) = {} THEN Entry(h1, k) = Entry(h0, k)
                ELSE Entry(h1, k) = Entry(Alone(Last(Writers(k))), k)
C14_Witness ==
    /\ optInput.opt.kind = "RequestOptionsList" /\ AppliedOnce
    /\ Len(optInput.opt.members) = 3
    /\ optInput.opt.members[1].kind = "CommonRequestOptions"
    /\ optInput.opt.members[1].SessionToken = "s0"
    /\ optInput.opt.members[2].kind = "nil"
    /\ optInput.opt.members[3].kind = "Query"
    /\ HeaderGet(optHdrs[2], HeaderSessionToken) = "s1"
    /\ HeaderGet(optHdrs[2], HeaderContinuation) = "c0"

\* C15: applying a CommonRequestOptions, a Query or a RequestOptionsList of them to a
\* request again leaves the headers as the first application left them.
C15_Idempotent ==
    \A i \in 3 .. Len(optHdrs) : optHdrs[i] = optHdrs[2]
C15_Witness ==
    /\ Len(optHdrs) = 3 /\ optHdrs[1] = EmptyHeader /\ optHdrs[2] # EmptyHeader
    /\ optInput.opt.kind = "RequestOptionsList"
    /\ \E i, j \in 1 .. Len(optInput.opt.members) :
            /\ optInput.opt.members[i].kind = "CommonRequestOptions"
            /\ optInput.opt.members[j].kind = "Query"

\* the calls of the signer made so far
SignCalls == 1 .. Len(signOut)
\* the Authorization header the call i left on the request
SentToken(i) == HeaderGet(signOut[i].res.req.Header, HeaderAuthorization)

\* C16: on every request a non-nil MasterKey authorized, the Authorization header is the
\* token of the message built with the x-ms-date the request carries (lower-cased), also
\* when the request or its options had set an x-ms-date before.
C16_SignedDateIsSentDate ==
    \A i \in SignCalls :
        LET x == signIn[i]
            out == signOut[i].res
        IN  ~x.k.isNil =>
                /\ out.err = Nil
                /\ HeaderMSDate \in DOMAIN out.req.Header
                /\ SentToken(i) =
                      Token(Sign(x.k, StringToSign(out.req.Method, x.resourceType, x.resourceLink,
                                                   out.req.Header[HeaderMSDate])))
C16_Witness ==
    /\ Len(signOut) = 1 /\ signOut[1].fn = "NewHTTPRequest"
    /\ ~signIn[1].k.isNil /\ signIn[1].k.key = "key"
    /\ signIn[1].options = RequestOptionsFunc(HeaderMSDate, CallerDate)
    /\ signOut[1].res.req.Header[HeaderMSDate] = signIn[1].date

\* C17: Authorize with a nil MasterKey or with a MasterKey of length zero returns the
\* request as it was.
C17_NoOpWithoutSecret ==
    \A i \in SignCalls :
        (signOut[i].fn = "Authorize" /\ (signIn[i].k.isNil \/ signIn[i].k.key = "")) =>
            (signOut[i].res.err = Nil /\ signOut[i].res.req = signIn[i].r)

\* the four inputs of the message of a call, as given and with the case folding of Authorize
SignTuple(x) == <<x.r.Method, x.resourceType, x.resourceLink, x.date>>
FoldedTuple(x) ==
    <<ToLower(x.r.Method), ResourceTypeString(x.resourceType), x.resourceLink, ToLowerDate(x.date)>>
\* the resource type of the call holds a line feed, as no ResourceType constant does
HasLineFeed(x) == x.resourceType = "docs\ncolls"

\* C18: two calls with one key whose (method, resource type, resource link, date) are
\* equal carry the same token, and two calls whose tuples differ in any component, be it
\* only in the letter case of the method or of the resource type, carry different tokens.
C18_InputSensitivity ==
    Len(signOut) = 2 =>
        /\ SignTuple(signIn[1]) = SignTuple(signIn[2]) => SentToken(1) = SentToken(2)
        /\ SignTuple(signIn[1]) # SignTuple(signIn[2]) => SentToken(1) # SentToken(2)

\* C18 as the signer does it: two calls with one key whose tuples are equal after the
\* lower-casing of method, resource type and date carry the same token; two calls whose
\* tuples differ after it, and whose resource types hold no line feed, carry different
\* tokens.
C18_FoldedSensitivity ==
    Len(signOut) = 2 =>
        /\ FoldedTuple(signIn[1]) = FoldedTuple(signIn[2]) => SentToken(1) = SentToken(2)
        /\ (/\ FoldedTuple(signIn[1]) # FoldedTuple(signIn[2])
            /\ ~HasLineFeed(signIn[1]) /\ ~HasLineFeed(signIn[2]))
                => SentToken(1) # SentToken(2)
C18_Witness ==
    /\ Len(signOut) = 2
    /\ signIn[1].r.Method = "GET" /\ signIn[2].r.Method = "get"
    /\ signIn[1].resourceType = "docs" /\ signIn[2].resourceType = "Docs"
    /\ signIn[1].resourceLink = signIn[2].resourceLink /\ signIn[1].date = signIn[2].date
    /\ SentToken(1) = SentToken(2)
C18_WitnessSwap ==
    /\ Len(signOut) = 2
    /\ signIn[1].resourceType = "docs" /\ signIn[1].resourceLink = "colls"
    /\ signIn[2].resourceType = "colls" /\ signIn[2].resourceLink = "docs"
    /\ SentToken(1) # SentToken(2)

\* C19: a signing Authorize leaves a non-empty x-ms-version the request carries, be it set
\* by the options, and writes APIVersion otherwise; it writes Authorization and x-ms-date
\* whatever the request carried, and no other header.
C19_VersionKept ==
    \A i \in SignCalls :
        LET x == signIn[i]
            h0 == IF signOut[i].fn = "Authorize" THEN x.r.Header
                  ELSE IF x.options.kind = "nil" THEN FreshHeader
                  ELSE ApplyOptions(x.options, x.r.Method, FreshHeader)
            h1 == signOut[i].res.req.Header
            Signer == {HeaderMSAPIVersion, HeaderAuthorization, HeaderMSDate}
        IN  ~x.k.isNil =>
                /\ DOMAIN h1 = DOMAIN h0 \cup Signer
                /\ \A k \in DOMAIN h0 \ Signer : h1[k] = h0[k]
                /\ h1[HeaderMSAPIVersion] =
                      (IF HeaderGet(h0, HeaderMSAPIVersion) # "" THEN h0[HeaderMSAPIVersion]
                       ELSE APIVersion)
                /\ h1[HeaderAuthorization] =
                      Token(Sign(x.k, StringToSign(x.r.Method, x.resourceType, x.resourceLink, x.date)))
                /\ h1[HeaderMSDate] = x.date
C19_Witness ==
    /\ Len(signOut) = 1 /\ signOut[1].fn = "Authorize" /\ ~signIn[1].k.isNil
    /\ HeaderGet(signIn[1].r.Header, HeaderMSAPIVersion) = CallerVersion
    /\ HeaderGet(signIn[1].r.Header, HeaderAuthorization) = CallerToken
    /\ signOut[1].res.req.Header[HeaderMSAPIVersion] = CallerVersion
    /\ signOut[1].res.req.Header[HeaderAuthorization] # CallerToken
C19_WitnessOptions ==
    /\ Len(signOut) = 1 /\ signOut[1].fn = "NewHTTPRequest" /\ ~signIn[1].k.isNil
    /\ signIn[1].options = RequestOptionsFunc(HeaderMSAPIVersion, CallerVersion)
    /\ signOut[1].res.req.Header[HeaderMSAPIVersion] = CallerVersion

\* C20: on a request NewHTTPRequest built from a ClientRequest with a Body reader alone,
\* GetBody is set and every reader a GetBody call returned yields the bytes of the
\* original body, however many calls there were and whatever was read before.
C20_BodyReplay ==
    (bodyIn.kind = "Body" /\ hbody.state = "built") =>
        /\ hbody.GetBody.set
        /\ \A i \in 1 .. Len(replays) :
              /\ replays[i].yields = bodyIn.data
              /\ readers[replays[i].reader].buf = bodyIn.data
C20_Witness ==
    /\ bodyIn.kind = "Body" /\ Len(bodyIn.data) = 2 /\ Len(replays) = 2
    /\ readers[hbody.Body].off = 2
    /\ readers[replays[1].reader].off = 2
    /\ replays[2].yields = bodyIn.data

\* the identity of the resource of a client as its identifiers spell it
RawLink(kind, c) ==
    LET db == "dbs/" \o c.DatabaseID
        coll == db \o "/colls/" \o c.CollectionID
    IN  CASE kind = "dbs" -> db
          [] kind = "colls" -> coll
          [] kind = "docs" -> coll \o "/docs/" \o c.ID
          [] kind = "sprocs" -> coll \o "/sprocs/" \o c.ID
          [] kind = "udfs" -> coll \o "/udfs/" \o c.ID
          [] OTHER -> c.ID
ResourceCall == callOut.fn \in {"GetRaw", "CreateDocument", "ReplaceDocument"}

\* C21: the ClientRequest a resource client hands over has the raw, case-preserved
\* identity of the resource as its ResourceLink and the identity escaped segment by
\* segment as its Path.
C21_LinkRawPathEscaped ==
    (ResourceCall /\ callOut.called) =>
        /\ callOut.request.ResourceLink =
              RawLink(IF callOut.fn = "CreateDocument" THEN "colls" ELSE callIn.kind, callIn)
        /\ callOut.request.Path =
              (IF callOut.fn = "CreateDocument"
               THEN "/" \o ResourceLink("colls", callIn) \o "/docs"
               ELSE "/" \o ResourceLink(callIn.kind, callIn))

\* C22: CreateDocument and ReplaceDocument hand a request over exactly when one of
\* Document and Body is non-empty and the other is not, and return an error otherwise.
C22_ExactlyOneOfDocumentAndBody ==
    callOut.fn \in {"CreateDocument", "ReplaceDocument"} =>
        LET hasDocument == callIn.Document # "nil"
            hasBody == ~callIn.Body.isNil /\ callIn.Body.bytes # ""
        IN  /\ callOut.called <=> (hasDocument # hasBody)
            /\ ~callOut.called => callOut.err # Nil

\* two queries that differ at most in the values of their Sensitive parameters
SameButSensitiveValues(q, q2) ==
    /\ q.isNil = q2.isNil
    /\ ~q.isNil =>
        /\ q.Query = q2.Query /\ q.MaxItemCount = q2.MaxItemCount
        /\ Len(q.Parameters) = Len(q2.Parameters)
        /\ \A i \in 1..Len(q.Parameters) :
              /\ q.Parameters[i].Name = q2.Parameters[i].Name
              /\ q.Parameters[i].Sensitive = q2.Parameters[i].Sensitive
              /\ ~q.Parameters[i].Sensitive => q.Parameters[i].Value = q2.Parameters[i].Value
\* two queries with the same text and the same names and values of parameters
SameOnTheWire(q, q2) ==
    /\ q.isNil = q2.isNil
    /\ ~q.isNil =>
        /\ q.Query = q2.Query /\ Len(q.Parameters) = Len(q2.Parameters)
        /\ \A i \in 1..Len(q.Parameters) :
              /\ q.Parameters[i].Name = q2.Parameters[i].Name
              /\ q.Parameters[i].Value = q2.Parameters[i].Value

\* C23: String() of two queries that differ only in the value of Sensitive parameters is
\* the same text, with the fixed mask in place of the value; the JSON of two queries is
\* the same text exactly when they agree on the query text and on the name and the real
\* value of every parameter, whatever the Sensitive flags and the pagination fields.
C23_SensitiveMasked ==
    /\ (callOut.fn = "String" /\ SameButSensitiveValues(callIn.q, callIn.q2)) =>
          callOut.text = callOut.other
    /\ (callOut.fn = "String" /\ ~callIn.q.isNil /\ Len(callIn.q.Parameters) = 1
         /\ callIn.q.Parameters[1].Sensitive) =>
          callOut.text = callIn.q.Query \o "; [@email: !(sensitive)]"
    /\ callOut.fn = "MarshalJSON" =>
          (callOut.text = callOut.other <=> SameOnTheWire(callIn.q, callIn.q2))
C23_Witness ==
    /\ callOut.fn = "String" /\ SameButSensitiveValues(callIn.q, callIn.q2)
    /\ ~callIn.q.isNil /\ Len(callIn.q.Parameters) = 2
    /\ callIn.q.Parameters[1].Sensitive /\ ~callIn.q.Parameters[2].Sensitive
    /\ callIn.q.Parameters[1].Value # callIn.q2.Parameters[1].Value
    /\ callOut.text = callOut.other
C23_WitnessJSON ==
    /\ callOut.fn = "MarshalJSON" /\ ~callIn.q.isNil /\ ~callIn.q2.isNil
    /\ Len(callIn.q.Parameters) = 1 /\ SameOnTheWire(callIn.q, callIn.q2)
    /\ callIn.q.Parameters[1].Sensitive /\ ~callIn.q2.Parameters[1].Sensitive
    /\ callIn.q.MaxItemCount # callIn.q2.MaxItemCount
    /\ callOut.text = "{\"query\":\"SELECT * FROM c WHERE c.email = @email\",\"parameters\":[{\"name\":\"@email\",\"value\":\"john.doe@example.com\"}]}"

\* C24: the request NewHTTPRequest builds with a Query as its options, the Query holding
\* RequestOptions that set x-request-id, carries that header together with the
\* pagination headers of the Query.
C24_QueryRequestOptionsApplied ==
    \A i \in 1..Len(signOut) :
        (signOut[i].fn = "NewHTTPRequest" /\ signIn[i].options = QueryWithOptions
         /\ signOut[i].res.err = Nil) =>
            /\ HeaderGet(signOut[i].res.req.Header, "x-request-id") = "foo"
            /\ HeaderGet(signOut[i].res.req.Header, HeaderMaxItemCount) = "5"
            /\ HeaderGet(signOut[i].res.req.Header, HeaderContinuation) = "c0"

\* C25: the error of the type Error that an operation returns for a response of status
\* 304, 404 or 412 reports that status from Status().
C25_TypedErrorStatus ==
    (callOut.fn = "Status"
     /\ callOut.err \in {ErrResourceNotModified, ErrResourceNotFound, ErrPreconditionFailed}) =>
        callOut.status = callIn.StatusCode

\* the body of the response holds an array, or null, under the key
Decodable(r, k) ==
    r.Body.valid /\ k \in DOMAIN r.Body.obj /\ r.Body.obj[k].t \in {"array", "null"}
\* the transport call made last returned a response
LastReceived == nCalls > 0 /\ doErr = Nil
\* in a run of ListResources every response but the last was a 200 that was delivered:
\* the number of 200 responses received, and the number of those that hold a page
Responses200 ==
    IF nCalls = 0 THEN 0
    ELSE (nCalls - 1) + (IF LastReceived /\ resp.StatusCode = StatusOK THEN 1 ELSE 0)
Pages200 ==
    IF nCalls = 0 THEN 0
    ELSE (nCalls - 1) +
         (IF LastReceived /\ resp.StatusCode = StatusOK /\ Decodable(resp, key) THEN 1 ELSE 0)
\* a request is sent only when the consumer has returned for every response before, and
\* the page handed to the consumer is the page of the response received last
OneAtATime ==
    /\ nCalls - nConsumer \in {0, 1}
    /\ pc = "Requesting" => nConsumer = nCalls
    /\ pc = "Delivering" =>
          /\ nConsumer = nCalls - 1
          /\ resp.StatusCode = StatusOK /\ Decodable(resp, key)
          /\ results = ParseArrayResponse(resp.Body.obj[key]).list

\* C26 as stated: the run of ListResources sends a request only after the consumer has
\* returned for the page before, and once it has returned every 200 response received
\* has been delivered to the consumer exactly once.
C26_Every200Delivered ==
    IsList => (OneAtATime /\ (pc = "done" => nConsumer = Responses200))

\* C26 amended: the run of ListResources sends a request only after the consumer has
\* returned for the page before, the consumer gets the page of the response received
\* last, and once the run has returned every 200 response that holds an array under the
\* key has been delivered exactly once; a 200 response that cannot be decoded is not
\* delivered.
C26_SequentialDelivery ==
    IsList => (OneAtATime /\ (pc = "done" => nConsumer = Pages200))
C26_Witness ==
    /\ IsList /\ pc = "Delivering" /\ nCalls = 3 /\ nConsumer = 2
    /\ results = <<"d1">>
C26_WitnessUndecodable ==
    /\ IsList /\ pc = "done" /\ nCalls = 2 /\ nConsumer = 1 /\ resp.StatusCode = StatusOK
    /\ ret.err = ErrKeyNotFound

\* C28: once Requester.Do has returned an error the operation has returned that very
\* error and makes no further transport call; a single-resource operation has made one
\* call, and ListResources has invoked the consumer once for each call but the failed one.
C28_TransportErrorVerbatim ==
    doErr # Nil =>
        /\ pc = "done" /\ ret.err = doErr
        /\ IsSingle => (nCalls = 1 /\ nConsumer = 0)
        /\ IsList => nConsumer = nCalls - 1
C28_Witness ==
    IsList /\ doErr = ErrTimeout /\ nCalls = 3 /\ nConsumer = 2 /\ ret.err = ErrTimeout
C28_WitnessSingle ==
    op = "CreateOrReplaceResource" /\ doErr = ErrTransport /\ ret.err = ErrTransport

\* the headers of the cursor and of the signer
CursorAndSignerHeaders ==
    {HeaderContinuation, HeaderSessionToken, HeaderMSDate, HeaderAuthorization}
\* the requests a and b agree on method, URL path, context and on every other header
SameLogicalRequest(a, b) ==
    /\ a.Method = b.Method /\ a.Path = b.Path /\ a.Context = b.Context
    /\ DOMAIN a.Header \ CursorAndSignerHeaders = DOMAIN b.Header \ CursorAndSignerHeaders
    /\ \A k \in DOMAIN a.Header \ CursorAndSignerHeaders : a.Header[k] = b.Header[k]

C27_BodyOnEveryRequest ==
    \A i \in DOMAIN runs : \A k \in 1 .. Len(runs[i].sent) :
        runs[i].sent[k].Body = RunBody(i)

\* what a caller and the server see of a run
Observed(run) == [sent |-> run.sent, pages |-> run.pages, ret |-> run.ret]
IsPrefix(s, t) == Len(s) <= Len(t) /\ s = SubSeq(t, 1, Len(s))
\* the run of each input as it ends when it runs alone on the readers of the callers
AloneRuns ==
    [x \in UNION {RunInputs(i) : i \in Runs} |->
        RunAlone(OCCClient, NewRun(x, x.id), "Thu, 01 Jan 1970 00:00:00 GMT", RunReaders)]
AloneRun(i) == AloneRuns[runs[i].in]

\* C30: under every interleaving of the steps of the runs, the request k+1 of a run
\* carries the continuation and the session token of the response k of that run, what a
\* run has sent and delivered so far is what it sends and delivers alone, and a run that
\* has returned has sent the requests, delivered the pages and returned the result of the
\* run alone.
C30_NoInterference ==
    \A i \in DOMAIN runs :
        LET alone == AloneRun(i)
        IN  /\ \A k \in 2 .. Len(runs[i].sent) :
                  /\ runs[i].sent[k].Continuation = RunCursor(i, k - 1)
                  /\ runs[i].sent[k].SessionToken = RunSession(i, k - 1)
            /\ IsPrefix(runs[i].sent, alone.sent)
            /\ IsPrefix(runs[i].pages, alone.pages)
            /\ runs[i].pc = "done" => Observed(runs[i]) = Observed(alone)
C30_Witness ==
    /\ DOMAIN runs = Runs
    /\ runs[1].pc = "Delivering" /\ Len(runs[1].sent) = 2
    /\ runs[2].pc = "done" /\ Len(runs[2].sent) = 3 /\ Len(runs[2].pages) = 3
    /\ runs[2].sent[3].Continuation = "c22" /\ runs[2].in.Method = "POST"
====
